---- MODULE Spec2Model ----
(***************************************************************************)
(* CalendarUtils of shared-utils.js as a state machine.  A state is the    *)
(* argument handed to CalendarUtils (arg), the last call made with it      *)
(* (op), what that call returned (result) and the time zone of the         *)
(* JavaScript host (tz), which the Date methods the code calls read.       *)
(* ResourceLoader of the same file is a second state machine, SpecLoader,  *)
(* over the module-level resourceLoader.  ThemeManager and SoundManager    *)
(* (SpecSettings) and ProgressTracker (SpecTracker) are state machines     *)
(* over localStorage; KeyboardNavigationManager (SpecNav), AccessibleModal *)
(* (SpecModal) and ScreenReaderAnnouncer (SpecAnnouncer) of the            *)
(* accessibility utilities are state machines over the page.               *)
(*                                                                         *)
(* Time values.  A JavaScript Date holds milliseconds since 1970-01-01     *)
(* UTC.  Every Date of this model falls on a whole hour, and a time value  *)
(* is kept in hours, so the 1000 * 60 * 60 * 24 ms of a day are the 24 h   *)
(* of HoursPerDay.                                                         *)
(*                                                                         *)
(* Numbers.  Years, days and indexes are integers.  \div and % of TLA+     *)
(* round to minus infinity (Math.floor of a quotient); the % of JavaScript *)
(* truncates and takes the sign of the dividend: JsRem.                    *)
(***************************************************************************)
EXTENDS Integers, Sequences, FiniteSets, TLC

VARIABLES op, arg, result, tz

\* The state of CalendarUtils' caller
calendarVars == <<op, arg, result, tz>>

\* resourceLoader: its loaded and failed sets, and the loadScript calls made
\* so far, each with its scripts and its promise.
VARIABLES loaded, failed, calls

loaderVars == <<loaded, failed, calls>>

\* keyboardNav (its currentFocusIndex), document.activeElement, the keydown
\* handlers trapFocus has registered on each container, and the last call
\* made on the page with what became of it.
VARIABLES currentFocusIndex, activeElement, trapHandlers, last

navVars == <<currentFocusIndex, activeElement, trapHandlers, last>>

\* An AccessibleModal and its element (modal), document.body.style.overflow
\* and the Escape handlers registered on document.
VARIABLES modal, bodyOverflow, escapeListeners

modalVars == <<modal, bodyOverflow, escapeListeners>>

\* screenReader: its live region, the timers announce has set and not yet
\* run, and the time in ms.
VARIABLES liveRegion, timers, now

announcerVars == <<liveRegion, timers, now>>

\* What the accessibility utilities hold, but for the last call
domVars == <<currentFocusIndex, activeElement, trapHandlers, modalVars, announcerVars>>

\* window.localStorage: for each key the empty set (getItem gives null) or
\* the set of the one value stored.
VARIABLES localStorage

\* soundManager, and what it has done to the audio of the host: how many
\* AudioContexts it constructed, the oscillator the last call started and
\* how many oscillators were started in all.
VARIABLES soundManager, audio

soundVars == <<soundManager, audio>>

\* themeManager, the system colour scheme (whether the media query
\* prefers-color-scheme: dark matches) and whether the document element has
\* the class dark.
VARIABLES themeManager, systemDark, documentDark

themeVars == <<themeManager, systemDark, documentDark>>

\* The ProgressTracker of the page: its data and where load found them.
VARIABLES tracker

storeVars == <<localStorage, soundVars, themeVars, tracker>>

pageVars == <<navVars, modalVars, announcerVars, storeVars>>

vars == <<op, arg, result, tz, loaded, failed, calls, pageVars>>

(***************************************************************************)
(* Bounds of the inputs.                                                   *)
(***************************************************************************)
MaxYear == 410

\* loadScript calls made in one run of the loader
MaxCalls == 2

\* The containers of the page have 0 .. MaxFocusable focusable elements.
MaxFocusable == 4

\* Focus-trap handlers that trapFocus calls have on the page at one time
MaxTraps == 2

\* announce calls whose timers have not all run
MaxAnnounces == 2

\* The time of the announcer runs to MaxTime ms, and passes Pace ms at a
\* time or up to the next timer.
MaxTime == 9000

Pace == 1000

\* open() calls of a modal whose Escape handler is still registered, and
\* the announcements of a run of the modal
MaxOpens == 3

MaxModalAnnounces == 4

\* Oscillators started by play in one run
MaxPlays == 3

\* incrementVisits calls on the trackers of one page
MaxVisits == 1

EasterSpan == 500

TrigSpan == 40

HalfSpan == 30

SampleYears == {1900, 2000, 2023, 2024, 2025}

Years == (-MaxYear .. MaxYear) \cup SampleYears

EasterYears == 1583 .. (1583 + EasterSpan)

AllYears == Years \cup EasterYears

\* The years the festival estimators are called with: those around 0 and
\* around 2025 whose sine and cosine the tables below hold.
FestivalYears == (-TrigSpan .. TrigSpan) \cup ((2025 - TrigSpan) .. (2025 + TrigSpan))

\* Years of the Date arguments: before the common era, a two-digit year,
\* a common year and a leap year.
DateYears == {-4, 50, 2023, 2024}

\* Local hours of the day of the Date arguments.
DateHours == {0, 23}

\* Hosts: UTC; UTC-5 with northern daylight saving; UTC+10 with southern
\* daylight saving.  Daylight saving is one hour and, in this model, covers
\* whole months of local standard time.
Zones ==
    { [off |-> 0, dst |-> "none"],
      [off |-> -5, dst |-> "north"],
      [off |-> 10, dst |-> "south"] }

(***************************************************************************)
(* JavaScript arithmetic.                                                  *)
(***************************************************************************)
\* x % n of JavaScript for integers, n > 0: the remainder of the division
\* truncated towards zero (-16 % 19 is -16).  -0 and 0 are one integer here;
\* === and Array.prototype.includes do not tell them apart either.
JsRem(x, n) == IF x < 0 THEN -((-x) % n) ELSE x % n

\* arr[i] of a JavaScript array held as a sequence: index 0 is the first
\* entry, an index outside the array reads undefined.
Index(arr, i) == IF i \in 0 .. (Len(arr) - 1) THEN arr[i + 1] ELSE "undefined"

\* [..].includes(x)
Includes(arr, x) == \E i \in 1 .. Len(arr) : arr[i] = x

(***************************************************************************)
(* JavaScript numbers that are no integers: NaN and the multiples of one   *)
(* half.  tw is twice the value; every operation the year functions apply  *)
(* (+, -, * by an integer, % by an integer, Math.floor of a quotient by an *)
(* integer) maps such numbers to such numbers, exactly as doubles do.      *)
(***************************************************************************)
NaN == [nan |-> TRUE, tw |-> 0]

\* The number twice / 2
Num(twice) == [nan |-> FALSE, tw |-> twice]

\* The integer n as a number
NInt(n) == Num(2 * n)

NAdd(x, y) == IF x.nan \/ y.nan THEN NaN ELSE Num(x.tw + y.tw)

NSub(x, y) == IF x.nan \/ y.nan THEN NaN ELSE Num(x.tw - y.tw)

\* k * x, k an integer
NTimes(k, x) == IF x.nan THEN NaN ELSE Num(k * x.tw)

\* x % n, n a positive integer: NaN for NaN, else the sign of x
NRem(x, n) == IF x.nan THEN NaN ELSE Num(JsRem(x.tw, 2 * n))

\* Math.floor(x / n), n a positive integer
NFloorDiv(x, n) == IF x.nan THEN NaN ELSE NInt(x.tw \div (2 * n))

\* x === 0: false for NaN
NIsZero(x) == ~x.nan /\ x.tw = 0

\* [..].includes(x) for an array of integers
NIncludes(arr, x) ==
    /\ ~x.nan
    /\ x.tw % 2 = 0
    /\ Includes(arr, x.tw \div 2)

\* arr[x]: undefined unless x is an index of the array
NIndex(arr, x) ==
    IF x.nan \/ x.tw % 2 # 0 THEN "undefined" ELSE Index(arr, x.tw \div 2)

\* `${x}`
NToString(x) ==
    IF x.nan THEN "NaN"
    ELSE IF x.tw % 2 = 0 THEN ToString(x.tw \div 2)
    ELSE IF x.tw < 0 THEN "-" \o ToString((-x.tw) \div 2) \o ".5"
    ELSE ToString(x.tw \div 2) \o ".5"

(***************************************************************************)
(* Math.sin and Math.cos of an integer number of radians, in millionths    *)
(* rounded down, for the integers -45..45 and 1980..2070.  For each of     *)
(* them and each of the multipliers 10, 12 and 15 of the code, the product *)
(* of the double with the multiplier is more than 0.0001 away from an      *)
(* integer (or is one exactly, at 0), so Math.floor of the product is the  *)
(* floor of the multiplier times the millionths over 1000000.              *)
(***************************************************************************)
SinNearZero ==
    << -850904, -17702, 831774, 916521, 158622, -745114, -963796, -296369,
       643538, 991778, 428182, -529083, -999912, -551427, 404037, 988031,
       663633, -270906, -956376, -762559, 132351, 905578, 846220, 8851,
       -836656, -912946, -149878, 750987, 961397, 287903, -650288, -990608,
       -420168, 536572, 999990, 544021, -412119, -989359, -656987, 279415,
       958924, 756802, -141121, -909298, -841471, 0, 841470, 909297,
       141120, -756803, -958925, -279416, 656986, 989358, 412118, -544022,
       -999991, -536573, 420167, 990607, 650287, -287904, -961398, -750988,
       149877, 912945, 836655, -8852, -846221, -905579, -132352, 762558,
       956375, 270905, -663634, -988032, -404038, 551426, 999911, 529082,
       -428183, -991779, -643539, 296368, 963795, 745113, -158623, -916522,
       -831775, 17701, 850903 >>

SinNear2025 ==
    << 715002, 974608, 338163, -609188, -996454, -467586, 491179, 998355,
       587648, -363340, -980276, -695951, 228228, 942574, 790322, -88549,
       -886009, -868877, -52903, 811709, 930039, 193295, -721164, -972589,
       -329821, 616182, 995670, 459742, -498870, -998825, -580464, 371572,
       981986, 689566, -236838, -945495, -784869, 97361, 890078, 864460,
       44061, -816847, -926751, -184604, 727266, 970491, 321451, -623131,
       -994809, -451865, 506521, 999214, 573233, -379776, -983621, -683130,
       245427, 948339, 779352, -106168, -894078, -859978, -35218, 821920,
       923389, 175897, -733314, -968320, -313058, 630028, 993868, 443950,
       -514134, -999526, -565959, 387948, 985177, 676638, -253999, -951111,
       -773777, 114964, 898007, 855426, 26370, -826931, -919956, -167178,
       739302, 966071, 304638 >>

CosNearZero ==
    << 525321, 999843, 555113, -399986, -987340, -666939, 266642, 955073,
       765414, -127964, -903693, -848571, -13277, 834223, 914742, 154251,
       -748058, -962606, -292139, 646919, 991202, 424179, -532834, -999961,
       -547730, 408082, 988704, 660316, -275164, -957660, -759688, 136737,
       907446, 843853, 4425, -839072, -911131, -145501, 753902, 960170,
       283662, -653644, -989993, -416147, 540302, 1000000, 540302, -416147,
       -989993, -653644, 283662, 960170, 753902, -145501, -911131, -839072,
       4425, 843853, 907446, 136737, -759688, -957660, -275164, 660316,
       988704, 408082, -547730, -999961, -532834, 424179, 991202, 646919,
       -292139, -962606, -748058, 154251, 914742, 834223, -13277, -848571,
       -903693, -127964, 765414, 955073, 266642, -666939, -987340, -399986,
       555113, 999843, 525321 >>

CosNear2025 ==
    << 699121, -223918, -941088, -793027, 84139, 883947, 871058, 57321,
       -809117, -931657, -197637, 718089, 973607, 333994, -612692, -996072,
       -463669, 495029, 998599, 584062, -367460, -981141, -692766, 232535,
       944043, 787603, -92957, -888053, -866677, -48483, 814285, 928404,
       188951, -724222, -971550, -325639, 619662, 995249, 455808, -502701,
       -999029, -576855, 375677, 982812, 686355, -241135, -946927, -782119,
       101765, 892086, 862227, 39640, -819392, -925079, -180253, 730297,
       969414, 317257, -626586, -994349, -447912, 510332, 999379, 569601,
       -383866, -984409, -679891, 249715, 949734, 776572, -110568, -896052,
       -857711, -30795, 824433, 921681, 171539, -736316, -967205, -308851,
       633459, 993369, 439980, -517925, -999653, -562305, 392023, 985926,
       673373, -258277, -952469 >>

\* Math.sin(x) in millionths
MathSin(x) == IF x \in -45 .. 45 THEN SinNearZero[x + 46] ELSE SinNear2025[x - 1979]

\* Math.cos(x) in millionths
MathCos(x) == IF x \in -45 .. 45 THEN CosNearZero[x + 46] ELSE CosNear2025[x - 1979]

\* Math.floor(v * k) for v in millionths
FloorTimes(v, k) == (v * k) \div 1000000

(***************************************************************************)
(* Date of JavaScript (ECMAScript: MakeDay, YearFromTime, MonthFromTime,   *)
(* DateFromTime, LocalTime, UTC), in the proleptic Gregorian calendar.     *)
(***************************************************************************)
HoursPerDay == 24

\* Day number (days since 1970-01-01) of year y, month m1 in 1..12, day d.
DaysFromCivil(y, m1, d) ==
    LET yy == IF m1 <= 2 THEN y - 1 ELSE y
        era == yy \div 400
        yoe == yy - era * 400
        mp == (m1 + 9) % 12
        doy == (153 * mp + 2) \div 5 + d - 1
        doe == yoe * 365 + yoe \div 4 - yoe \div 100 + doy
    IN era * 146097 + doe - 719468

\* Year, month (1..12) and day of the month of a day number.
CivilFromDays(z) ==
    LET zz == z + 719468
        era == zz \div 146097
        doe == zz - era * 146097
        yoe == (doe - doe \div 1460 + doe \div 36524 - doe \div 146096) \div 365
        doy == doe - (365 * yoe + yoe \div 4 - yoe \div 100)
        mp == (5 * doy + 2) \div 153
        d == doy - (153 * mp + 2) \div 5 + 1
        m == IF mp < 10 THEN mp + 3 ELSE mp - 9
    IN [y |-> yoe + era * 400 + (IF m <= 2 THEN 1 ELSE 0), m |-> m, d |-> d]

\* Whether daylight saving is in force in zone z at time value t.
DstInForce(z, t) ==
    LET m == CivilFromDays((t + z.off) \div HoursPerDay).m
    IN CASE z.dst = "north" -> m \in 4 .. 9
         [] z.dst = "south" -> m \in {10, 11, 12, 1, 2, 3}
         [] OTHER -> FALSE

\* Hours that local time is ahead of UTC at time value t.
Offset(z, t) == z.off + (IF DstInForce(z, t) THEN 1 ELSE 0)

\* Local hours since the local 1970-01-01 00:00 at time value t.
LocalTime(z, t) == t + Offset(z, t)

\* The time value of a local time; a local hour that daylight saving skips
\* is read with the offset in force before the change, one that it repeats
\* is the earlier of the two.
UTCTime(z, local) ==
    LET early == local - z.off - 1
    IN IF Offset(z, early) = z.off + 1 THEN early ELSE local - z.off

LocalFields(z, t) == CivilFromDays(LocalTime(z, t) \div HoursPerDay)

getFullYear(z, t) == LocalFields(z, t).y

\* 0 is January
getMonth(z, t) == LocalFields(z, t).m - 1

getDate(z, t) == LocalFields(z, t).d

\* new Date(year, month, day): local midnight; a year in 0..99 stands for
\* 1900 + year; a month or a day outside its range carries over.
NewDate(z, year, month, day) ==
    LET yr == IF year \in 0 .. 99 THEN 1900 + year ELSE year
        ym == yr + month \div 12
        mn == month % 12
    IN UTCTime(z, (DaysFromCivil(ym, mn + 1, 1) + day - 1) * HoursPerDay)

\* date.setDate(day): the local year, month and time of day are kept, the
\* day of the month is set; a day outside the month carries over.
SetDate(z, t, day) ==
    LET f == LocalFields(z, t)
        timeInDay == LocalTime(z, t) % HoursPerDay
    IN UTCTime(z, (DaysFromCivil(f.y, f.m, 1) + day - 1) * HoursPerDay
                     + timeInDay)

\* The Date whose local fields are y, m (0 is January), d and hour h: what
\* parsing 'YYYY-MM-DDTHH:00' or setFullYear(y, m, d) gives, any year.
DateOfLocal(z, y, m, d, h) ==
    UTCTime(z, DaysFromCivil(y, m + 1, d) * HoursPerDay + h)

\* Days in month m (0 is January) of year y.
DaysInMonth(y, m) == DaysFromCivil(y + (m + 1) \div 12, ((m + 1) % 12) + 1, 1)
                        - DaysFromCivil(y, m + 1, 1)

\* The Date arguments of the model, in the host's zone: t is the time
\* value, the only field the code reads; y, m (0 is January) and d are the
\* local calendar date the Date was made from.
Dates(z) ==
    UNION { { [kind |-> "Date", t |-> DateOfLocal(z, y, m, d, h),
               y |-> y, m |-> m, d |-> d] :
                d \in 1 .. DaysInMonth(y, m), h \in DateHours } :
            y \in DateYears, m \in 0 .. 11 }

(***************************************************************************)
(* CalendarUtils: Gregorian calendar.                                      *)
(***************************************************************************)
isGregorianLeapYearEvery4(year) == JsRem(year, 4) = 0

isGregorianLeapYear(year) ==
    (JsRem(year, 400) = 0) \/ (JsRem(year, 4) = 0 /\ JsRem(year, 100) # 0)

getDaysInGregorianYear(year) == IF isGregorianLeapYear(year) THEN 366 ELSE 365

getJulianGregorianOffsetTruncating(year) ==
    LET century == (IF year < 0 THEN -((-year) \div 100) ELSE year \div 100)
    IN century
          - (IF century < 0 THEN -((-century) \div 4) ELSE century \div 4) - 2

getJulianGregorianOffset(year) ==
    LET century == year \div 100
    IN century - century \div 4 - 2

monthNames ==
    << "January", "February", "March", "April", "May", "June",
       "July", "August", "September", "October", "November", "December" >>

EasterMonthDayNoCorrection(year) ==
    LET a == JsRem(year, 19)
        b == year \div 100
        c == JsRem(year, 100)
        d == b \div 4
        e == JsRem(b, 4)
        f == (b + 8) \div 25
        g == (b - f + 1) \div 3
        h == JsRem(19 * a + b - d - g + 15, 30)
        i == c \div 4
        k == JsRem(c, 4)
        l == JsRem(32 + 2 * e + 2 * i - h - k, 7)
    IN [month |-> (h + l + 114) \div 31,
        day |-> JsRem(h + l + 114, 31) + 1]

\* The month (1..12 when it is one) and the day that calculateEasterDate
\* computes: Math.floor(x / n) is x \div n, % is JsRem.
EasterMonthDay(year) ==
    LET a == JsRem(year, 19)
        b == year \div 100
        c == JsRem(year, 100)
        d == b \div 4
        e == JsRem(b, 4)
        f == (b + 8) \div 25
        g == (b - f + 1) \div 3
        h == JsRem(19 * a + b - d - g + 15, 30)
        i == c \div 4
        k == JsRem(c, 4)
        l == JsRem(32 + 2 * e + 2 * i - h - k, 7)
        m == (a + 11 * h + 22 * l) \div 451
    IN [month |-> (h + l - 7 * m + 114) \div 31,
        day |-> JsRem(h + l - 7 * m + 114, 31) + 1]

calculateEasterDateMonthOffByOne(year) ==
    LET md == EasterMonthDay(year)
    IN Index(monthNames, md.month) \o " " \o ToString(md.day)
          \o ", " \o ToString(year)

calculateEasterDate(year) ==
    LET md == EasterMonthDay(year)
    IN Index(monthNames, md.month - 1) \o " " \o ToString(md.day)
          \o ", " \o ToString(year)

(***************************************************************************)
(* CalendarUtils: Hebrew calendar.                                         *)
(***************************************************************************)
isHebrewLeapYearNo19(year) ==
    Includes(<<3, 6, 8, 11, 14, 17>>, JsRem(year, 19))

isHebrewLeapYear(year) ==
    LET cycleYear == JsRem(year, 19)
    IN Includes(<<3, 6, 8, 11, 14, 17, 0>>, cycleYear)

getMonthsInHebrewYear(year) == IF isHebrewLeapYear(year) THEN 13 ELSE 12

hebrewMonths ==
    << "Nisan", "Iyar", "Sivan", "Tammuz", "Av", "Elul",
       "Tishrei", "Heshvan", "Kislev", "Tevet", "Shevat", "Adar" >>

\* monthIndex of gregorianToHebrew
hebrewMonthIndex(z, date) == JsRem(getMonth(z, date) + 6, 12)

gregorianToHebrewAfterOctober(z, date) ==
    LET year == getFullYear(z, date)
        hebrewYear == year + 3760 + (IF getMonth(z, date) > 9 THEN 1 ELSE 0)
    IN ToString(getDate(z, date)) \o " "
          \o Index(hebrewMonths, hebrewMonthIndex(z, date)) \o " "
          \o ToString(hebrewYear)

gregorianToHebrew(z, date) ==
    LET year == getFullYear(z, date)
        hebrewYear == year + 3760 + (IF getMonth(z, date) >= 9 THEN 1 ELSE 0)
        month == Index(hebrewMonths, hebrewMonthIndex(z, date))
        day == getDate(z, date)
    IN ToString(day) \o " " \o month \o " " \o ToString(hebrewYear)

(***************************************************************************)
(* CalendarUtils: Islamic calendar.                                        *)
(***************************************************************************)
isIslamicLeapYear15(year) ==
    Includes(<<2, 5, 7, 10, 13, 15, 18, 21, 24, 26, 29>>, JsRem(year, 30))

isIslamicLeapYear(year) ==
    LET cycleYear == JsRem(year, 30)
    IN Includes(<<2, 5, 7, 10, 13, 16, 18, 21, 24, 26, 29>>, cycleYear)

getDaysInIslamicYear(year) == IF isIslamicLeapYear(year) THEN 355 ELSE 354

islamicMonths ==
    << "Muharram", "Safar", "Rabi' al-Awwal", "Rabi' al-Thani",
       "Jumada al-Awwal", "Jumada al-Thani", "Rajab", "Sha'ban",
       "Ramadan", "Shawwal", "Dhu al-Qi'dah", "Dhu al-Hijjah" >>

\* Math.floor((year - 622) * 1.030684) + 1.  The product is an integer only
\* when year - 622 is a multiple of 250000, and is otherwise at least one
\* millionth away from one, far more than the rounding of a double: the
\* floor of the double is the floor of the exact product.
islamicYearOf(year) == ((year - 622) * 1030684) \div 1000000 + 1

\* dayOfYear of gregorianToIslamic: whole days from new Date(year, 0, 0).
islamicDayOfYear(z, date) ==
    (date - NewDate(z, getFullYear(z, date), 0, 0)) \div HoursPerDay

\* monthIndex of gregorianToIslamic.  Math.floor(x / 29.5) is the floor of
\* 2x / 59.
islamicMonthIndex(z, date) ==
    JsRem((2 * JsRem(islamicDayOfYear(z, date), 354)) \div 59, 12)

\* day of gregorianToIslamic.  x % 29.5 is JsRem(2x, 59) / 2.
islamicDay(z, date) ==
    JsRem(2 * JsRem(islamicDayOfYear(z, date), 354), 59) \div 2 + 1

gregorianToIslamic(z, date) ==
    LET year == getFullYear(z, date)
        islamicYear == islamicYearOf(year)
        month == Index(islamicMonths, islamicMonthIndex(z, date))
        day == islamicDay(z, date)
    IN ToString(day) \o " " \o month \o " " \o ToString(islamicYear) \o " AH"

\* The months array of calculateRamadanStart is the monthNames of
\* calculateEasterDate, entry for entry.
calculateRamadanStartForward(z, gregorianYear) ==
    LET baseDate == NewDate(z, 2024, 2, 10)
        daysBack == (gregorianYear - 2024) * 11
        ramadanStart == SetDate(z, baseDate, getDate(z, baseDate) + daysBack)
    IN Index(monthNames, getMonth(z, ramadanStart)) \o " "
          \o ToString(getDate(z, ramadanStart)) \o ", "
          \o ToString(gregorianYear)

calculateRamadanStart(z, gregorianYear) ==
    LET baseYear == 2024
        baseDate == NewDate(z, 2024, 2, 10)
        yearsDiff == gregorianYear - baseYear
        daysBack == yearsDiff * 11
        \* new Date(baseDate) has the time value of baseDate
        ramadanStart == SetDate(z, baseDate, getDate(z, baseDate) - daysBack)
    IN Index(monthNames, getMonth(z, ramadanStart)) \o " "
          \o ToString(getDate(z, ramadanStart)) \o ", "
          \o ToString(gregorianYear)

(***************************************************************************)
(* CalendarUtils: seasons.                                                 *)
(***************************************************************************)
\* new Date(dateString) of getSeason.  A Date argument gives a Date of the
\* same time value; a date-only string 'YYYY-MM-DD' is read as UTC midnight.
DateFrom(dateString) ==
    IF dateString.kind = "Date"
    THEN dateString.t
    ELSE DaysFromCivil(dateString.y, dateString.m, dateString.d) * HoursPerDay

getSeasonOneIndexed(z, dateString) ==
    LET month == getMonth(z, DateFrom(dateString)) + 1
    IN IF month >= 2 /\ month <= 4 THEN "Spring"
       ELSE IF month >= 5 /\ month <= 7 THEN "Summer"
       ELSE IF month >= 8 /\ month <= 10 THEN "Fall"
       ELSE "Winter"

getSeason(z, dateString) ==
    LET date == DateFrom(dateString)
        month == getMonth(z, date)
    IN IF month >= 2 /\ month <= 4 THEN "Spring"
       ELSE IF month >= 5 /\ month <= 7 THEN "Summer"
       ELSE IF month >= 8 /\ month <= 10 THEN "Fall"
       ELSE "Winter"

(***************************************************************************)
(* CalendarUtils: Hindu calendar.                                          *)
(***************************************************************************)
hinduMonths ==
    << "Chaitra", "Vaishakha", "Jyeshtha", "Ashadha",
       "Shravana", "Bhadrapada", "Ashwin", "Kartik",
       "Margashirsha", "Pausha", "Magha", "Phalguna" >>

\* monthIndex of gregorianToHindu
hinduMonthIndex(z, date) == JsRem(getMonth(z, date) + 10, 12)

gregorianToHinduShaka(z, date) ==
    LET year == getFullYear(z, date)
        shakaYear == year - 78
    IN ToString(getDate(z, date)) \o " "
          \o Index(hinduMonths, hinduMonthIndex(z, date)) \o " "
          \o ToString(shakaYear) \o " (Vikram Samvat)"

gregorianToHindu(z, date) ==
    LET year == getFullYear(z, date)
        vikramYear == year + 57
        month == Index(hinduMonths, hinduMonthIndex(z, date))
        day == getDate(z, date)
    IN ToString(day) \o " " \o month \o " " \o ToString(vikramYear)
          \o " (Vikram Samvat)"

\* The festival estimators.  Their months arrays are the monthNames of
\* calculateEasterDate, entry for entry.
FestivalDate(z, base, offset, year) ==
    LET shifted == SetDate(z, base, getDate(z, base) + offset)
    IN Index(monthNames, getMonth(z, shifted)) \o " "
          \o ToString(getDate(z, shifted)) \o ", " \o ToString(year)

calculateDiwali(z, year) ==
    LET base == NewDate(z, year, 9, 15)
        offset == FloorTimes(MathSin(year), 15)
    IN FestivalDate(z, base, offset, year)

calculateHoli(z, year) ==
    LET base == NewDate(z, year, 2, 8)
        offset == FloorTimes(MathCos(year), 12)
    IN FestivalDate(z, base, offset, year)

calculateNavratriSinOfYear(z, year) ==
    LET base == NewDate(z, year, 8, 20)
        offset == FloorTimes(MathSin(year), 10)
    IN FestivalDate(z, base, offset, year)

calculateNavratri(z, year) ==
    LET base == NewDate(z, year, 8, 20)
        offset == FloorTimes(MathSin(year + 1), 10)
    IN FestivalDate(z, base, offset, year)

(***************************************************************************)
(* CalendarUtils: the functions of a year, for a year that is NaN or no    *)
(* integer.  Line for line the functions above, in the arithmetic of       *)
(* JavaScript numbers.                                                     *)
(***************************************************************************)
isGregorianLeapYearOfNumber(year) ==
    NIsZero(NRem(year, 400))
       \/ (NIsZero(NRem(year, 4)) /\ ~NIsZero(NRem(year, 100)))

getDaysInGregorianYearOfNumber(year) ==
    IF isGregorianLeapYearOfNumber(year) THEN NInt(366) ELSE NInt(365)

getJulianGregorianOffsetOfNumberToInt32(year) ==
    LET century == IF year.nan THEN NInt(0) ELSE NFloorDiv(year, 100)
    IN NSub(NSub(century, NFloorDiv(century, 4)), NInt(2))

getJulianGregorianOffsetOfNumber(year) ==
    LET century == NFloorDiv(year, 100)
    IN NSub(NSub(century, NFloorDiv(century, 4)), NInt(2))

EasterMonthDayOfNumber(year) ==
    LET a == NRem(year, 19)
        b == NFloorDiv(year, 100)
        c == NRem(year, 100)
        d == NFloorDiv(b, 4)
        e == NRem(b, 4)
        f == NFloorDiv(NAdd(b, NInt(8)), 25)
        g == NFloorDiv(NAdd(NSub(b, f), NInt(1)), 3)
        h == NRem(NAdd(NSub(NSub(NAdd(NTimes(19, a), b), d), g), NInt(15)), 30)
        i == NFloorDiv(c, 4)
        k == NRem(c, 4)
        l == NRem(NSub(NSub(NAdd(NAdd(NInt(32), NTimes(2, e)), NTimes(2, i)), h), k), 7)
        m == NFloorDiv(NAdd(NAdd(a, NTimes(11, h)), NTimes(22, l)), 451)
        n == NAdd(NSub(NAdd(h, l), NTimes(7, m)), NInt(114))
    IN [month |-> NFloorDiv(n, 31), day |-> NAdd(NRem(n, 31), NInt(1))]

calculateEasterDateOfNumber(year) ==
    LET md == EasterMonthDayOfNumber(year)
    IN NIndex(monthNames, NSub(md.month, NInt(1))) \o " " \o NToString(md.day)
          \o ", " \o NToString(year)

isHebrewLeapYearOfNumber(year) ==
    LET cycleYear == NRem(year, 19)
    IN NIncludes(<<3, 6, 8, 11, 14, 17, 0>>, cycleYear)

getMonthsInHebrewYearOfNumber(year) ==
    IF isHebrewLeapYearOfNumber(year) THEN NInt(13) ELSE NInt(12)

isIslamicLeapYearOfNumber(year) ==
    LET cycleYear == NRem(year, 30)
    IN NIncludes(<<2, 5, 7, 10, 13, 16, 18, 21, 24, 26, 29>>, cycleYear)

getDaysInIslamicYearOfNumber(year) ==
    IF isIslamicLeapYearOfNumber(year) THEN NInt(355) ELSE NInt(354)

(***************************************************************************)
(* The state machine.  The argument is drawn when the state machine        *)
(* starts: a year, a Date, or a date-only string.  Every step is one call  *)
(* of a CalendarUtils function on it; calls follow each other in any       *)
(* order.  SpecInvalid is the same machine started with a year that is     *)
(* NaN or no integer, for the functions of a year.                         *)
(***************************************************************************)
\* The date-only strings 'YYYY-MM-DD' (m in 1..12) of the years that have
\* four digits.
DateStrings ==
    UNION { { [kind |-> "string", y |-> y, m |-> m, d |-> d] :
                d \in 1 .. DaysInMonth(y, m - 1) } :
            y \in DateYears \cap (0 .. 9999), m \in 1 .. 12 }

(***************************************************************************)
(* localStorage and the objects shared-utils.js constructs from it when    *)
(* the script runs.                                                        *)
(***************************************************************************)
StorageKeys == {"calendar-theme", "calendar-sound-enabled", "calendar-progress-maya"}

EmptyStorage == [k \in StorageKeys |-> {}]

\* localStorage.getItem(key) !== value
ItemIsNot(storage, key, value) == storage[key] # {value}

\* new SoundManager()
NewSoundManager(storage) ==
    [enabled |-> ItemIsNot(storage, "calendar-sound-enabled", "false"),
     context |-> "null",
     sounds |-> [n \in {} |-> 0],
     initialized |-> FALSE]

NoAudio == [contexts |-> 0, oscillator |-> {}, started |-> 0]

\* localStorage.getItem(key) || otherwise
ItemOr(storage, key, otherwise) ==
    IF storage[key] = {} \/ storage[key] = {""}
    THEN otherwise
    ELSE CHOOSE v \in storage[key] : TRUE

\* new ThemeManager()
NewThemeManager(storage, dark) ==
    [theme |-> ItemOr(storage, "calendar-theme", IF dark THEN "dark" ELSE "light")]

\* ProgressTracker.getDefaultData(): null is the empty set, a string s is {s}.
getDefaultData ==
    [screensVisited |-> <<>>,
     quizScores |-> [q \in {} |-> 0],
     lastVisit |-> {},
     completedAt |-> {},
     totalVisits |-> 0]

\* No ProgressTracker has been constructed.
NoTracker == [data |-> getDefaultData, origin |-> "none"]

\* The script has run on a host with nothing stored.
StoreFresh ==
    /\ localStorage = EmptyStorage
    /\ soundManager = NewSoundManager(EmptyStorage)
    /\ audio = NoAudio
    /\ systemDark = FALSE
    /\ themeManager = NewThemeManager(EmptyStorage, FALSE)
    /\ documentDark = FALSE
    /\ tracker = NoTracker

(***************************************************************************)
(* The page of the accessibility utilities.  For each n in Containers the  *)
(* page has one container whose querySelectorAll(focusableElements) gives  *)
(* n elements; the container is named by n and its elements by their index *)
(* in that array.  Body stands for document.body, which is what            *)
(* document.activeElement is when no element has focus.                    *)
(***************************************************************************)
Containers == 0 .. MaxFocusable

El(c, i) == [container |-> c, index |-> i]

Body == [container |-> 0 - 1, index |-> 0]

\* getFocusableElements(container)
getFocusableElements(c) == [i \in 0 .. (c - 1) |-> El(c, i)]

Elements == UNION {{El(c, i) : i \in 0 .. (c - 1)} : c \in Containers}

\* The last call: its name, the container or the time and message it was
\* given, whether it threw and, for a key press, the key (message), the
\* Shift key and whether a handler called preventDefault, and for a call
\* of a ProgressTracker whether it wrote to localStorage.
NoCall ==
    [call |-> "none", container |-> 0, threw |-> FALSE, prevented |-> FALSE,
     at |-> 0, message |-> "", shiftKey |-> FALSE, wrote |-> FALSE]

\* No AccessibleModal has been constructed: no element of the page is hidden.
\* previousFocus is the empty set for null and {e} for the element e.
NoModal ==
    [container |-> 0 - 2, display |-> "block", ariaHidden |-> "false",
     previousFocus |-> {}, removeFocusTrap |-> "null",
     escapeHandler |-> "undefined", focusBeforeOpen |-> {}]

\* The scripts have run: keyboardNav and screenReader are constructed, no
\* element has focus, no handler is registered, no timer is set.
PageLoaded ==
    /\ currentFocusIndex = 0
    /\ activeElement = Body
    /\ trapHandlers = [c \in Containers |-> 0]
    /\ last = NoCall
    /\ modal = NoModal
    /\ bodyOverflow = ""
    /\ escapeListeners = 0
    /\ liveRegion = [textContent |-> "", ariaLive |-> "polite"]
    /\ timers = <<>>
    /\ now = 0
    /\ StoreFresh

\* new ResourceLoader(): nothing loaded, nothing failed, no call made.
LoaderConstructed ==
    /\ loaded = {}
    /\ failed = {}
    /\ calls = <<>>

Init ==
    /\ op = "none"
    /\ result = "none"
    /\ tz \in Zones
    /\ \/ \E year \in AllYears : arg = [kind |-> "year", year |-> year]
       \/ arg \in Dates(tz)
       \/ arg \in DateStrings
    /\ LoaderConstructed
    /\ PageLoaded

Call(name, r) ==
    /\ op' = name
    /\ result' = r
    /\ UNCHANGED <<arg, tz>>
    /\ UNCHANGED loaderVars
    /\ UNCHANGED pageVars

IsGregorianLeapYear ==
    /\ arg.kind \in {"year", "number"}
    /\ Call("isGregorianLeapYear",
            IF arg.kind = "year" THEN isGregorianLeapYear(arg.year)
            ELSE isGregorianLeapYearOfNumber(arg.value))

GetDaysInGregorianYear ==
    /\ arg.kind \in {"year", "number"}
    /\ Call("getDaysInGregorianYear",
            IF arg.kind = "year" THEN getDaysInGregorianYear(arg.year)
            ELSE getDaysInGregorianYearOfNumber(arg.value))

CalculateEasterDate ==
    /\ arg.kind \in {"year", "number"}
    /\ Call("calculateEasterDate",
            IF arg.kind = "year" THEN calculateEasterDate(arg.year)
            ELSE calculateEasterDateOfNumber(arg.value))

IsHebrewLeapYear ==
    /\ arg.kind \in {"year", "number"}
    /\ Call("isHebrewLeapYear",
            IF arg.kind = "year" THEN isHebrewLeapYear(arg.year)
            ELSE isHebrewLeapYearOfNumber(arg.value))

GetMonthsInHebrewYear ==
    /\ arg.kind \in {"year", "number"}
    /\ Call("getMonthsInHebrewYear",
            IF arg.kind = "year" THEN getMonthsInHebrewYear(arg.year)
            ELSE getMonthsInHebrewYearOfNumber(arg.value))

GregorianToHebrew ==
    /\ arg.kind = "Date"
    /\ Call("gregorianToHebrew", gregorianToHebrew(tz, arg.t))

IsIslamicLeapYear ==
    /\ arg.kind \in {"year", "number"}
    /\ Call("isIslamicLeapYear",
            IF arg.kind = "year" THEN isIslamicLeapYear(arg.year)
            ELSE isIslamicLeapYearOfNumber(arg.value))

GetDaysInIslamicYear ==
    /\ arg.kind \in {"year", "number"}
    /\ Call("getDaysInIslamicYear",
            IF arg.kind = "year" THEN getDaysInIslamicYear(arg.year)
            ELSE getDaysInIslamicYearOfNumber(arg.value))

GregorianToIslamicInPlace ==
    /\ arg.kind = "Date"
    /\ op' = "gregorianToIslamic"
    /\ result' = gregorianToIslamic(tz, arg.t)
    /\ arg' = [arg EXCEPT !.t = NewDate(tz, getFullYear(tz, arg.t), 0, 0)]
    /\ UNCHANGED tz
    /\ UNCHANGED loaderVars
    /\ UNCHANGED pageVars

GregorianToIslamic ==
    /\ arg.kind = "Date"
    /\ Call("gregorianToIslamic", gregorianToIslamic(tz, arg.t))

GetSeason ==
    /\ arg.kind \in {"Date", "string"}
    /\ Call("getSeason", getSeason(tz, arg))

GregorianToHindu ==
    /\ arg.kind = "Date"
    /\ Call("gregorianToHindu", gregorianToHindu(tz, arg.t))

GetJulianGregorianOffset ==
    /\ arg.kind \in {"year", "number"}
    /\ Call("getJulianGregorianOffset",
            IF arg.kind = "year" THEN getJulianGregorianOffset(arg.year)
            ELSE getJulianGregorianOffsetOfNumber(arg.value))

CalculateRamadanStart ==
    /\ arg.kind = "year"
    /\ Call("calculateRamadanStart", calculateRamadanStart(tz, arg.year))

CalculateDiwali ==
    /\ arg.kind = "year"
    /\ arg.year \in FestivalYears
    /\ Call("calculateDiwali", calculateDiwali(tz, arg.year))

CalculateHoli ==
    /\ arg.kind = "year"
    /\ arg.year \in FestivalYears
    /\ Call("calculateHoli", calculateHoli(tz, arg.year))

CalculateNavratri ==
    /\ arg.kind = "year"
    /\ arg.year \in FestivalYears
    /\ Call("calculateNavratri", calculateNavratri(tz, arg.year))

Next ==
    \/ IsGregorianLeapYear
    \/ GetDaysInGregorianYear
    \/ CalculateEasterDate
    \/ IsHebrewLeapYear
    \/ GetMonthsInHebrewYear
    \/ GregorianToHebrew
    \/ IsIslamicLeapYear
    \/ GetDaysInIslamicYear
    \/ GregorianToIslamic
    \/ GetSeason
    \/ GregorianToHindu
    \/ GetJulianGregorianOffset
    \/ CalculateRamadanStart
    \/ CalculateDiwali
    \/ CalculateHoli
    \/ CalculateNavratri

Spec == Init /\ [][Next]_vars

\* The years that are no integers: NaN, and k + 0.5 for k around 0 and
\* around 2024.
InvalidYears ==
    {NaN} \cup { Num(2 * k + 1) :
                   k \in (-HalfSpan .. HalfSpan)
                            \cup ((2024 - HalfSpan) .. (2024 + HalfSpan)) }

InitInvalid ==
    /\ op = "none"
    /\ result = "none"
    /\ tz \in Zones
    /\ \E v \in InvalidYears : arg = [kind |-> "number", value |-> v]
    /\ LoaderConstructed
    /\ PageLoaded

NextInvalid ==
    \/ IsGregorianLeapYear
    \/ GetDaysInGregorianYear
    \/ GetJulianGregorianOffset
    \/ CalculateEasterDate
    \/ IsHebrewLeapYear
    \/ GetMonthsInHebrewYear
    \/ IsIslamicLeapYear
    \/ GetDaysInIslamicYear

SpecInvalid == InitInvalid /\ [][NextInvalid]_vars

(***************************************************************************)
(* ResourceLoader.  A call of loadScript is a record: the name, whether a  *)
(* fallback URL was given, the state of the primary and of the fallback    *)
(* script element ("none": not appended, "pending": appended and no event  *)
(* yet, "ok": onload ran and testFunction() was true, "bad": onload ran    *)
(* and testFunction() was false, "error": onerror ran), the state of the   *)
(* promise, how many times resolve or reject was invoked (settles), and    *)
(* whether the name was in loaded when the call made or when its fallback  *)
(* script was appended (history, for the properties).  What testFunction() *)
(* returns is the host's choice at each onload.                            *)
(***************************************************************************)
Names == {"d3", "katex"}

\* resolve() or reject(): only the first settles the promise.
Settle(c, how) ==
    [c EXCEPT !.promise = IF @ = "pending" THEN how ELSE @,
              !.settles = @ + 1]

\* The call after loadFallback(fallback, testFunction, name, resolve,
\* reject) ran for it.
LoadFallbackCall(c) ==
    IF ~c.fallback
    THEN Settle(c, "rejected")
    ELSE [c EXCEPT !.fallbackScript = "pending",
                   !.fallbackWhenLoaded = (c.name \in loaded)]

\* The failed set after loadFallback ran for the call.
LoadFallbackFailed(c) ==
    IF ~c.fallback THEN failed \cup {c.name} ELSE failed

LoaderInit ==
    /\ op = "none"
    /\ arg = [kind |-> "none"]
    /\ result = "none"
    /\ tz = [off |-> 0, dst |-> "none"]
    /\ LoaderConstructed
    /\ PageLoaded

LoadScript ==
    /\ Len(calls) < MaxCalls
    /\ \E name \in Names, fallback \in BOOLEAN :
          LET c == [name |-> name, fallback |-> fallback,
                    primaryScript |-> "none", fallbackScript |-> "none",
                    promise |-> "pending", settles |-> 0,
                    alreadyLoaded |-> name \in loaded,
                    fallbackWhenLoaded |-> FALSE]
          IN calls' = Append(calls,
                             IF name \in loaded
                             THEN Settle(c, "resolved")
                             ELSE [c EXCEPT !.primaryScript = "pending"])
    /\ UNCHANGED <<loaded, failed>>
    /\ UNCHANGED calendarVars
    /\ UNCHANGED pageVars

\* script.onload of the primary script
PrimaryOnload ==
    /\ \E i \in 1 .. Len(calls), testFunction \in BOOLEAN :
          /\ calls[i].primaryScript = "pending"
          /\ IF testFunction
             THEN /\ loaded' = loaded \cup {calls[i].name}
                  /\ calls' = [calls EXCEPT ![i] =
                                 Settle([@ EXCEPT !.primaryScript = "ok"], "resolved")]
                  /\ UNCHANGED failed
             ELSE /\ calls' = [calls EXCEPT ![i] =
                                 LoadFallbackCall([@ EXCEPT !.primaryScript = "bad"])]
                  /\ failed' = LoadFallbackFailed(calls[i])
                  /\ UNCHANGED loaded
    /\ UNCHANGED calendarVars
    /\ UNCHANGED pageVars

\* script.onerror of the primary script
PrimaryOnerror ==
    /\ \E i \in 1 .. Len(calls) :
          /\ calls[i].primaryScript = "pending"
          /\ calls' = [calls EXCEPT ![i] =
                         LoadFallbackCall([@ EXCEPT !.primaryScript = "error"])]
          /\ failed' = LoadFallbackFailed(calls[i])
          /\ UNCHANGED loaded
    /\ UNCHANGED calendarVars
    /\ UNCHANGED pageVars

FallbackOnloadIgnoresTest ==
    /\ \E i \in 1 .. Len(calls), testFunction \in BOOLEAN :
          /\ calls[i].fallbackScript = "pending"
          /\ loaded' = loaded \cup {calls[i].name}
          /\ calls' = [calls EXCEPT ![i] =
                         Settle([@ EXCEPT !.fallbackScript =
                                    IF testFunction THEN "ok" ELSE "bad"],
                                "resolved")]
          /\ UNCHANGED failed
    /\ UNCHANGED calendarVars
    /\ UNCHANGED pageVars

\* script.onload of the fallback script
FallbackOnload ==
    /\ \E i \in 1 .. Len(calls), testFunction \in BOOLEAN :
          /\ calls[i].fallbackScript = "pending"
          /\ IF testFunction
             THEN /\ loaded' = loaded \cup {calls[i].name}
                  /\ calls' = [calls EXCEPT ![i] =
                                 Settle([@ EXCEPT !.fallbackScript = "ok"], "resolved")]
                  /\ UNCHANGED failed
             ELSE /\ failed' = failed \cup {calls[i].name}
                  /\ calls' = [calls EXCEPT ![i] =
                                 Settle([@ EXCEPT !.fallbackScript = "bad"], "rejected")]
                  /\ UNCHANGED loaded
    /\ UNCHANGED calendarVars
    /\ UNCHANGED pageVars

\* script.onerror of the fallback script
FallbackOnerror ==
    /\ \E i \in 1 .. Len(calls) :
          /\ calls[i].fallbackScript = "pending"
          /\ failed' = failed \cup {calls[i].name}
          /\ calls' = [calls EXCEPT ![i] =
                         Settle([@ EXCEPT !.fallbackScript = "error"], "rejected")]
          /\ UNCHANGED loaded
    /\ UNCHANGED calendarVars
    /\ UNCHANGED pageVars

LoaderNext ==
    \/ LoadScript
    \/ PrimaryOnload
    \/ PrimaryOnerror
    \/ FallbackOnload
    \/ FallbackOnerror

SpecLoader == LoaderInit /\ [][LoaderNext]_vars

(***************************************************************************)
(* ScreenReaderAnnouncer.announce: the text is emptied at once, and two    *)
(* timers are set, neither ever cancelled.  A timer is the time at which   *)
(* it is due and the text its callback writes.                             *)
(***************************************************************************)
SetDelay == 100

ClearDelay == 5000

\* The timers after announce(message) at the time t
AnnounceTimers(ts, message, t) ==
    ts \o <<[due |-> t + SetDelay, textContent |-> message],
            [due |-> t + ClearDelay, textContent |-> ""]>>

RECURSIVE AnnounceTimes(_, _, _, _)
\* The timers after k calls of announce(message) at the time t
AnnounceTimes(k, ts, message, t) ==
    IF k = 0 THEN ts
    ELSE AnnounceTimes(k - 1, AnnounceTimers(ts, message, t), message, t)

\* The live region after announce(message, priority)
AnnounceRegion(priority) == [textContent |-> "", ariaLive |-> priority]

(***************************************************************************)
(* KeyboardNavigationManager.  element.focus() moves the focus to the      *)
(* element unless it cannot take it: document.body, or an element of a     *)
(* modal that is not displayed.  Each function gives currentFocusIndex and *)
(* document.activeElement after the call, and whether the call threw.      *)
(***************************************************************************)
Hidden(e, m) == e.container = m.container /\ m.display = "none"

Focus(e, m, active) == IF e = Body \/ Hidden(e, m) THEN active ELSE e

NavResult(index, active, threw) ==
    [currentFocusIndex |-> index, activeElement |-> active, threw |-> threw]

focusFirst(c, index, active, m) ==
    IF c > 0
    THEN NavResult(0, Focus(getFocusableElements(c)[0], m, active), FALSE)
    ELSE NavResult(index, active, FALSE)

focusLast(c, index, active, m) ==
    IF c > 0
    THEN NavResult(c - 1, Focus(getFocusableElements(c)[c - 1], m, active), FALSE)
    ELSE NavResult(index, active, FALSE)

focusNext(c, index, active, m) ==
    IF c > 0
    THEN LET next == JsRem(index + 1, c)
         IN NavResult(next, Focus(getFocusableElements(c)[next], m, active), FALSE)
    ELSE NavResult(index, active, FALSE)

\* elements[currentFocusIndex] is undefined when the index, taken from an
\* earlier call on a larger container, is past the end: .focus() of
\* undefined throws a TypeError, after currentFocusIndex was written.
focusPrevious(c, index, active, m) ==
    IF c > 0
    THEN LET previous == IF index - 1 < 0 THEN c - 1 ELSE index - 1
         IN IF previous \in DOMAIN getFocusableElements(c)
            THEN NavResult(previous,
                           Focus(getFocusableElements(c)[previous], m, active),
                           FALSE)
            ELSE NavResult(previous, active, TRUE)
    ELSE NavResult(index, active, FALSE)

(***************************************************************************)
(* AccessibleModal over the container modal.container.  removeFocusTrap is *)
(* "cleanup" when it holds the cleanup function of a handler that is still *)
(* registered; escapeHandler is "registered" when the handler it holds is  *)
(* on document.  focusBeforeOpen keeps document.activeElement of the open  *)
(* that found the modal hidden (history, for the properties).              *)
(***************************************************************************)
\* The page with a modal that has not been opened, the focus on an element
\* outside it.
ModalInit ==
    /\ op = "none"
    /\ arg = [kind |-> "none"]
    /\ result = "none"
    /\ tz = [off |-> 0, dst |-> "none"]
    /\ LoaderConstructed
    /\ currentFocusIndex = 0
    /\ trapHandlers = [c \in Containers |-> 0]
    /\ last = NoCall
    /\ \E c \in Containers :
          /\ modal = [container |-> c, display |-> "none", ariaHidden |-> "true",
                      previousFocus |-> {}, removeFocusTrap |-> "null",
                      escapeHandler |-> "undefined", focusBeforeOpen |-> {}]
          /\ activeElement \in {e \in Elements : e.container # c}
    /\ bodyOverflow = ""
    /\ escapeListeners = 0
    /\ liveRegion = [textContent |-> "", ariaLive |-> "polite"]
    /\ timers = <<>>
    /\ now = 0
    /\ StoreFresh

\* The modal object and its element after open()
OpenModal(m, active) ==
    [m EXCEPT !.previousFocus = {active},
              !.display = "block",
              !.ariaHidden = "false",
              !.removeFocusTrap = IF m.container > 0 THEN "cleanup" ELSE "undefined",
              !.escapeHandler = "registered",
              !.focusBeforeOpen = IF m.display = "none" THEN {active} ELSE @]

Open ==
    /\ escapeListeners < MaxOpens
    /\ Len(timers) < 2 * MaxModalAnnounces
    /\ modal' = OpenModal(modal, activeElement)
    /\ trapHandlers' = IF modal.container > 0
                       THEN [trapHandlers EXCEPT ![modal.container] = @ + 1]
                       ELSE trapHandlers
    /\ LET nav == focusFirst(modal.container, currentFocusIndex, activeElement, modal')
       IN /\ currentFocusIndex' = nav.currentFocusIndex
          /\ activeElement' = nav.activeElement
    /\ bodyOverflow' = "hidden"
    /\ escapeListeners' = escapeListeners + 1
    /\ liveRegion' = AnnounceRegion("polite")
    /\ timers' = AnnounceTimers(timers, "Dialog opened", now)
    /\ last' = [NoCall EXCEPT !.call = "open", !.container = modal.container]
    /\ UNCHANGED now
    /\ UNCHANGED <<calendarVars, loaderVars, storeVars>>

\* The modal object and its element after close()
CloseModal(m) ==
    [m EXCEPT !.display = "none",
              !.ariaHidden = "true",
              !.removeFocusTrap = IF @ = "cleanup" THEN "null" ELSE @,
              !.escapeHandler = IF @ = "registered" THEN "removed" ELSE @]

\* document.activeElement after close(): previousFocus.focus(), and, when
\* the focus is left on an element of the modal, which is no longer
\* displayed, either that element still or document.body, as the browser
\* has it.
FocusAfterClose(m, active) ==
    LET restored == IF m.previousFocus = {}
                    THEN active
                    ELSE Focus(CHOOSE e \in m.previousFocus : TRUE, CloseModal(m), active)
    IN IF Hidden(restored, CloseModal(m)) THEN {restored, Body} ELSE {restored}

\* close() run by the call named call; closes is how many times it runs
\* (an Escape key press runs it once for each handler it reaches).
CloseBy(call, closes) ==
    /\ modal' = CloseModal(modal)
    /\ trapHandlers' = IF modal.removeFocusTrap = "cleanup"
                       THEN [trapHandlers EXCEPT ![modal.container] = @ - 1]
                       ELSE trapHandlers
    /\ activeElement' \in FocusAfterClose(modal, activeElement)
    /\ bodyOverflow' = ""
    /\ escapeListeners' = IF modal.escapeHandler = "registered"
                          THEN escapeListeners - 1
                          ELSE escapeListeners
    /\ liveRegion' = AnnounceRegion("polite")
    /\ timers' = AnnounceTimes(closes, timers, "Dialog closed", now)
    /\ last' = [NoCall EXCEPT !.call = call, !.container = modal.container]
    /\ UNCHANGED <<currentFocusIndex, now>>
    /\ UNCHANGED <<calendarVars, loaderVars, storeVars>>

Close ==
    /\ Len(timers) < 2 * MaxModalAnnounces
    /\ CloseBy("close", 1)

\* A keydown of Escape reaches the Escape handlers on document in the order
\* they were added; each runs close(), and the first close() removes the
\* handler this.escapeHandler holds, the last added, before it is reached.
Escape ==
    /\ escapeListeners > 0
    /\ LET closes == IF modal.escapeHandler = "registered" /\ escapeListeners > 1
                     THEN escapeListeners - 1
                     ELSE escapeListeners
       IN /\ Len(timers) + 2 * closes <= 2 * MaxModalAnnounces
          /\ CloseBy("Escape", closes)

ModalNext ==
    \/ Open
    \/ Close
    \/ Escape

SpecModal == ModalInit /\ [][ModalNext]_vars

(***************************************************************************)
(* screenReader as a state machine: announce calls, the timers they set,   *)
(* and the passing of time.  A timer runs when its time has come, the      *)
(* earliest first and, of two due at the same time, the one set first.     *)
(***************************************************************************)
Messages == {"Next screen", "Previous screen"}

AnnouncerInit ==
    /\ op = "none"
    /\ arg = [kind |-> "none"]
    /\ result = "none"
    /\ tz = [off |-> 0, dst |-> "none"]
    /\ LoaderConstructed
    /\ PageLoaded

\* The timer that runs next: the first of those with the least time
NextTimer(ts) ==
    CHOOSE i \in DOMAIN ts :
        /\ \A j \in DOMAIN ts : ts[i].due <= ts[j].due
        /\ \A j \in 1 .. (i - 1) : ts[j].due > ts[i].due

TimerDue(ts, t) == \E i \in DOMAIN ts : ts[i].due <= t

Without(ts, i) == SubSeq(ts, 1, i - 1) \o SubSeq(ts, i + 1, Len(ts))

Announce ==
    /\ Len(timers) < 2 * MaxAnnounces
    /\ \E message \in Messages, priority \in {"polite", "assertive"} :
          /\ liveRegion' = AnnounceRegion(priority)
          /\ timers' = AnnounceTimers(timers, message, now)
          /\ last' = [NoCall EXCEPT !.call = "announce", !.at = now,
                                    !.message = message]
    /\ UNCHANGED <<now, currentFocusIndex, activeElement, trapHandlers>>
    /\ UNCHANGED <<calendarVars, loaderVars, modalVars, storeVars>>

\* The callback of a setTimeout of announce
TimerFires ==
    /\ TimerDue(timers, now)
    /\ liveRegion' = [liveRegion EXCEPT
                         !.textContent = timers[NextTimer(timers)].textContent]
    /\ timers' = Without(timers, NextTimer(timers))
    /\ UNCHANGED <<now, last, currentFocusIndex, activeElement, trapHandlers>>
    /\ UNCHANGED <<calendarVars, loaderVars, modalVars, storeVars>>

\* Time passes, to the next timer or by Pace ms, whichever comes first.
TimePasses ==
    /\ ~TimerDue(timers, now)
    /\ now' = IF timers # <<>> /\ timers[NextTimer(timers)].due <= now + Pace
              THEN timers[NextTimer(timers)].due
              ELSE now + Pace
    /\ now' <= MaxTime
    /\ UNCHANGED <<liveRegion, timers, last, currentFocusIndex, activeElement,
                   trapHandlers>>
    /\ UNCHANGED <<calendarVars, loaderVars, modalVars, storeVars>>

AnnouncerNext ==
    \/ Announce
    \/ TimerFires
    \/ TimePasses

SpecAnnouncer == AnnouncerInit /\ [][AnnouncerNext]_vars

(***************************************************************************)
(* SoundManager.  A sound is its frequency in hundredths of a hertz and    *)
(* its duration in ms.  available is whether the host can construct an     *)
(* AudioContext; when it cannot, the constructor call throws.              *)
(***************************************************************************)
BuiltInSounds ==
    [click |-> [frequency |-> 52325, duration |-> 100],
     success |-> [frequency |-> 65925, duration |-> 200],
     milestone |-> [frequency |-> 78399, duration |-> 300],
     complete |-> [frequency |-> 104650, duration |-> 500],
     error |-> [frequency |-> 24694, duration |-> 300]]

SoundNames == DOMAIN BuiltInSounds

\* The names play is called with: the built-in ones and one that is none.
PlayNames == SoundNames \cup {"fanfare"}

\* Whether init() gets to construct an AudioContext
InitConstructs(sm, available) == ~sm.initialized /\ available

\* soundManager after init()
init(sm, available) ==
    IF sm.initialized THEN sm
    ELSE IF available
         THEN [sm EXCEPT !.context = "AudioContext",
                         !.initialized = TRUE,
                         !.sounds = BuiltInSounds]
         ELSE [sm EXCEPT !.enabled = FALSE]

\* Whether play(name) returns at its first line
PlayReturnsAtOnce(sm, name) == ~sm.enabled \/ name \notin DOMAIN sm.sounds

\* The oscillator play(name) starts once past its first line, if any:
\* this.context.createOscillator() throws when context is null, and the
\* catch logs it.
PlayStarts(sm, name) ==
    IF sm.context = "null" THEN {} ELSE {sm.sounds[name]}

SettingsInit ==
    /\ op = "none"
    /\ arg = [kind |-> "none"]
    /\ result = "none"
    /\ tz = [off |-> 0, dst |-> "none"]
    /\ LoaderConstructed
    /\ currentFocusIndex = 0
    /\ activeElement = Body
    /\ trapHandlers = [c \in Containers |-> 0]
    /\ last = NoCall
    /\ modal = NoModal
    /\ bodyOverflow = ""
    /\ escapeListeners = 0
    /\ liveRegion = [textContent |-> "", ariaLive |-> "polite"]
    /\ timers = <<>>
    /\ now = 0
    /\ \E sound \in {{}, {"true"}, {"false"}}, theme \in {{}, {"light"}, {"dark"}} :
          localStorage = [EmptyStorage EXCEPT !["calendar-sound-enabled"] = sound,
                                              !["calendar-theme"] = theme]
    /\ soundManager = NewSoundManager(localStorage)
    /\ audio = NoAudio
    /\ systemDark \in BOOLEAN
    /\ themeManager = NewThemeManager(localStorage, systemDark)
    /\ documentDark = (themeManager.theme = "dark")
    /\ tracker = NoTracker

\* soundManager.init() called by a page
InitSound ==
    /\ \E available \in BOOLEAN :
          /\ soundManager' = init(soundManager, available)
          /\ audio' = [audio EXCEPT
                          !.contexts = IF InitConstructs(soundManager, available)
                                       THEN @ + 1
                                       ELSE @,
                          !.oscillator = {}]
    /\ last' = [NoCall EXCEPT !.call = "init"]
    /\ UNCHANGED <<localStorage, themeVars, tracker>>
    /\ UNCHANGED <<calendarVars, loaderVars, domVars>>

\* soundManager.play(name)
Play ==
    /\ audio.started < MaxPlays
    /\ \E name \in PlayNames, available \in BOOLEAN :
          /\ IF PlayReturnsAtOnce(soundManager, name)
             THEN /\ soundManager' = soundManager
                  /\ audio' = [audio EXCEPT !.oscillator = {}]
             ELSE LET sm == init(soundManager, available)
                  IN /\ soundManager' = sm
                     /\ audio' = [contexts |-> IF InitConstructs(soundManager, available)
                                               THEN audio.contexts + 1
                                               ELSE audio.contexts,
                                  oscillator |-> PlayStarts(sm, name),
                                  started |-> audio.started
                                                + Cardinality(PlayStarts(sm, name))]
          /\ last' = [NoCall EXCEPT !.call = "play", !.message = name]
    /\ UNCHANGED <<localStorage, themeVars, tracker>>
    /\ UNCHANGED <<calendarVars, loaderVars, domVars>>

\* soundManager.toggle()
ToggleSound ==
    /\ soundManager' = [soundManager EXCEPT !.enabled = ~@]
    /\ localStorage' = [localStorage EXCEPT !["calendar-sound-enabled"] =
                           {IF soundManager.enabled THEN "false" ELSE "true"}]
    /\ audio' = [audio EXCEPT !.oscillator = {}]
    /\ last' = [NoCall EXCEPT !.call = "toggleSound"]
    /\ UNCHANGED <<themeVars, tracker>>
    /\ UNCHANGED <<calendarVars, loaderVars, domVars>>

(***************************************************************************)
(* ThemeManager.  apply() gives the document element the class dark when   *)
(* the theme is 'dark' and takes it away otherwise.                        *)
(***************************************************************************)
\* themeManager.toggle()
ToggleTheme ==
    /\ themeManager' = [theme |-> IF themeManager.theme = "light"
                                  THEN "dark"
                                  ELSE "light"]
    /\ documentDark' = (themeManager'.theme = "dark")
    /\ localStorage' = [localStorage EXCEPT !["calendar-theme"] =
                           {themeManager'.theme}]
    /\ last' = [NoCall EXCEPT !.call = "toggle"]
    /\ UNCHANGED <<soundVars, systemDark, tracker>>
    /\ UNCHANGED <<calendarVars, loaderVars, domVars>>

SystemChangeIgnoresStored ==
    /\ systemDark' = ~systemDark
    /\ themeManager' = [theme |-> IF systemDark' THEN "dark" ELSE "light"]
    /\ documentDark' = (themeManager'.theme = "dark")
    /\ last' = [NoCall EXCEPT !.call = "change"]
    /\ UNCHANGED <<localStorage, soundVars, tracker>>
    /\ UNCHANGED <<calendarVars, loaderVars, domVars>>

\* The system colour scheme changes: the change listener of the constructor
SystemChange ==
    /\ systemDark' = ~systemDark
    /\ IF ItemOr(localStorage, "calendar-theme", "") = ""
       THEN /\ themeManager' = [theme |-> IF systemDark' THEN "dark" ELSE "light"]
            /\ documentDark' = (themeManager'.theme = "dark")
       ELSE UNCHANGED <<themeManager, documentDark>>
    /\ last' = [NoCall EXCEPT !.call = "change"]
    /\ UNCHANGED <<localStorage, soundVars, tracker>>
    /\ UNCHANGED <<calendarVars, loaderVars, domVars>>

(***************************************************************************)
(* The two managers that keep a setting in localStorage, as one state      *)
(* machine.                                                                *)
(***************************************************************************)
SettingsNext ==
    \/ InitSound
    \/ Play
    \/ ToggleSound
    \/ ToggleTheme
    \/ SystemChange

SpecSettings == SettingsInit /\ [][SettingsNext]_vars

(***************************************************************************)
(* trapFocus and the keys.  The elements of the page take the focus by Tab *)
(* in the order of the document: container by container, each in the order *)
(* of getFocusableElements, and from the last of the page to document.body *)
(* (and from there to the first).  A keydown goes to the element that has  *)
(* the focus and from it to the handlers on its container; the default     *)
(* action of Tab follows unless a handler prevented it.                    *)
(***************************************************************************)
RECURSIVE ElementsUpTo(_)
ElementsUpTo(c) ==
    IF c = 0 THEN <<>>
    ELSE ElementsUpTo(c - 1) \o [i \in 1 .. c |-> El(c, i - 1)]

\* The elements that can take the focus, in the order of the document
TabOrder(m) == SelectSeq(ElementsUpTo(MaxFocusable), LAMBDA e : ~Hidden(e, m))

Place(order, e) == CHOOSE i \in DOMAIN order : order[i] = e

NextInTabOrder(order, e) ==
    IF \A i \in DOMAIN order : order[i] # e
    THEN IF order = <<>> THEN Body ELSE order[1]
    ELSE IF Place(order, e) = Len(order) THEN Body ELSE order[Place(order, e) + 1]

PreviousInTabOrder(order, e) ==
    IF \A i \in DOMAIN order : order[i] # e
    THEN IF order = <<>> THEN Body ELSE order[Len(order)]
    ELSE IF Place(order, e) = 1 THEN Body ELSE order[Place(order, e) - 1]

KeyResult(active, prevented) == [activeElement |-> active, prevented |-> prevented]

handleTabKeyIgnoresShift(c, key, shiftKey, r, m) ==
    IF key # "Tab" THEN r
    ELSE IF r.activeElement = getFocusableElements(c)[c - 1]
         THEN KeyResult(Focus(getFocusableElements(c)[0], m, r.activeElement), TRUE)
         ELSE r

\* handleTabKey of trapFocus(container) for the container c, run on a key
\* event whose state so far is r
handleTabKey(c, key, shiftKey, r, m) ==
    IF key # "Tab" THEN r
    ELSE IF shiftKey
         THEN IF r.activeElement = getFocusableElements(c)[0]
              THEN KeyResult(Focus(getFocusableElements(c)[c - 1], m, r.activeElement),
                             TRUE)
              ELSE r
         ELSE IF r.activeElement = getFocusableElements(c)[c - 1]
              THEN KeyResult(Focus(getFocusableElements(c)[0], m, r.activeElement), TRUE)
              ELSE r

RECURSIVE RunHandlers(_, _, _, _, _, _)
\* The k handlers on the container c run one after the other.
RunHandlers(k, c, key, shiftKey, r, m) ==
    IF k = 0 THEN r
    ELSE RunHandlers(k - 1, c, key, shiftKey, handleTabKey(c, key, shiftKey, r, m), m)

\* The default action of the key, when no handler prevented it
DefaultAction(key, shiftKey, r, m) ==
    IF r.prevented \/ key # "Tab" THEN r
    ELSE IF shiftKey
         THEN KeyResult(PreviousInTabOrder(TabOrder(m), r.activeElement), FALSE)
         ELSE KeyResult(NextInTabOrder(TabOrder(m), r.activeElement), FALSE)

RECURSIVE TrapCount(_, _)
\* The handlers on the containers 0 .. c
TrapCount(handlers, c) ==
    IF c < 0 THEN 0 ELSE handlers[c] + TrapCount(handlers, c - 1)

Keys == {"Tab", "Enter"}

(***************************************************************************)
(* keyboardNav as a state machine: the four focus functions and trapFocus, *)
(* each called on any container of the page, the cleanup functions that    *)
(* trapFocus returned, and the keys.  A call that throws leaves the page   *)
(* running, with what the call wrote before it threw.                      *)
(***************************************************************************)
NavInit ==
    /\ op = "none"
    /\ arg = [kind |-> "none"]
    /\ result = "none"
    /\ tz = [off |-> 0, dst |-> "none"]
    /\ LoaderConstructed
    /\ PageLoaded

\* The call named call on the container c has had the result nav.
NavCall(call, c, nav) ==
    /\ currentFocusIndex' = nav.currentFocusIndex
    /\ activeElement' = nav.activeElement
    /\ last' = [NoCall EXCEPT !.call = call, !.container = c, !.threw = nav.threw]

FocusFirst ==
    /\ \E c \in Containers :
          NavCall("focusFirst", c, focusFirst(c, currentFocusIndex, activeElement, modal))
    /\ UNCHANGED trapHandlers
    /\ UNCHANGED <<calendarVars, loaderVars, modalVars, announcerVars, storeVars>>

FocusLast ==
    /\ \E c \in Containers :
          NavCall("focusLast", c, focusLast(c, currentFocusIndex, activeElement, modal))
    /\ UNCHANGED trapHandlers
    /\ UNCHANGED <<calendarVars, loaderVars, modalVars, announcerVars, storeVars>>

FocusNext ==
    /\ \E c \in Containers :
          NavCall("focusNext", c, focusNext(c, currentFocusIndex, activeElement, modal))
    /\ UNCHANGED trapHandlers
    /\ UNCHANGED <<calendarVars, loaderVars, modalVars, announcerVars, storeVars>>

FocusPrevious ==
    /\ \E c \in Containers :
          NavCall("focusPrevious", c,
                  focusPrevious(c, currentFocusIndex, activeElement, modal))
    /\ UNCHANGED trapHandlers
    /\ UNCHANGED <<calendarVars, loaderVars, modalVars, announcerVars, storeVars>>

\* keyboardNav.trapFocus(container)
TrapFocus ==
    /\ TrapCount(trapHandlers, MaxFocusable) < MaxTraps
    /\ \E c \in Containers :
          /\ trapHandlers' = IF c = 0
                             THEN trapHandlers
                             ELSE [trapHandlers EXCEPT ![c] = @ + 1]
          /\ last' = [NoCall EXCEPT !.call = "trapFocus", !.container = c]
    /\ UNCHANGED <<currentFocusIndex, activeElement>>
    /\ UNCHANGED <<calendarVars, loaderVars, modalVars, announcerVars, storeVars>>

\* A cleanup function that trapFocus returned is called for the first time.
Cleanup ==
    /\ \E c \in Containers :
          /\ trapHandlers[c] > 0
          /\ trapHandlers' = [trapHandlers EXCEPT ![c] = @ - 1]
          /\ last' = [NoCall EXCEPT !.call = "cleanup", !.container = c]
    /\ UNCHANGED <<currentFocusIndex, activeElement>>
    /\ UNCHANGED <<calendarVars, loaderVars, modalVars, announcerVars, storeVars>>

\* A key is pressed.
KeyDown ==
    /\ \E key \in Keys, shiftKey \in BOOLEAN :
          LET c == activeElement.container
              handled == IF c \in Containers
                         THEN RunHandlers(trapHandlers[c], c, key, shiftKey,
                                          KeyResult(activeElement, FALSE), modal)
                         ELSE KeyResult(activeElement, FALSE)
              done == DefaultAction(key, shiftKey, handled, modal)
          IN /\ activeElement' = done.activeElement
             /\ last' = [NoCall EXCEPT !.call = "keydown", !.message = key,
                                       !.shiftKey = shiftKey,
                                       !.container = c,
                                       !.prevented = done.prevented]
    /\ UNCHANGED <<currentFocusIndex, trapHandlers>>
    /\ UNCHANGED <<calendarVars, loaderVars, modalVars, announcerVars, storeVars>>

NavNext ==
    \/ FocusFirst
    \/ FocusLast
    \/ FocusNext
    \/ FocusPrevious
    \/ TrapFocus
    \/ Cleanup
    \/ KeyDown

SpecNav == NavInit /\ [][NavNext]_vars

(***************************************************************************)
(* ProgressTracker.  The data are a record: screensVisited a sequence,     *)
(* quizScores the sequence of the object's keys with their values in the   *)
(* order they were added, lastVisit and completedAt the empty set for null *)
(* or the set of one string.  A JSON text is the sequence of its tokens,   *)
(* each a string: JSONstringify writes them and JSONparse reads them one   *)
(* by one, and fails on a text that is not of the form it reads.  The      *)
(* empty text is the empty sequence.                                       *)
(***************************************************************************)
ProgressKey == "calendar-progress-maya"

ScreenIds == {0, 1}

QuizIds == {"quiz-1"}

Scores == {40, 90}

\* What new Date().toISOString() can give, in the order of time
Instants == <<"2024-03-10T09:00:00.000Z">>

\* The numbers and the strings JSONparse can read
JsonNumbers == 0 .. 100

JsonStrings == {Instants[i] : i \in DOMAIN Instants} \cup QuizIds

Quote(string) == "\"" \o string \o "\""

RECURSIVE Joined(_)
\* The texts of the sequence, with commas between them
Joined(texts) ==
    IF texts = <<>> THEN <<>>
    ELSE IF Len(texts) = 1 THEN texts[1]
    ELSE texts[1] \o <<",">> \o Joined(Tail(texts))

NullableText(value) ==
    IF value = {} THEN <<"null">> ELSE <<Quote(CHOOSE v \in value : TRUE)>>

JSONstringify(data) ==
    <<"{", Quote("screensVisited"), ":", "[">>
    \o Joined([i \in DOMAIN data.screensVisited |->
                  <<ToString(data.screensVisited[i])>>])
    \o <<"]", ",", Quote("quizScores"), ":", "{">>
    \o Joined([i \in DOMAIN data.quizScores |->
                  <<Quote(data.quizScores[i].key), ":",
                    ToString(data.quizScores[i].value)>>])
    \o <<"}", ",", Quote("lastVisit"), ":">> \o NullableText(data.lastVisit)
    \o <<",", Quote("completedAt"), ":">> \o NullableText(data.completedAt)
    \o <<",", Quote("totalVisits"), ":", ToString(data.totalVisits), "}">>

\* What a parser gives: a value and the place of the next token, or failure
Parsed(value, next) == [ok |-> TRUE, value |-> value, next |-> next]

SyntaxError == [ok |-> FALSE, value |-> 0, next |-> 0]

At(text, i, token) == i \in DOMAIN text /\ text[i] = token

ParseNumber(text, i) ==
    IF i \in DOMAIN text /\ \E n \in JsonNumbers : ToString(n) = text[i]
    THEN Parsed(CHOOSE n \in JsonNumbers : ToString(n) = text[i], i + 1)
    ELSE SyntaxError

ParseString(text, i) ==
    IF i \in DOMAIN text /\ \E v \in JsonStrings : Quote(v) = text[i]
    THEN Parsed(CHOOSE v \in JsonStrings : Quote(v) = text[i], i + 1)
    ELSE SyntaxError

ParseNullable(text, i) ==
    IF At(text, i, "null") THEN Parsed({}, i + 1)
    ELSE LET string == ParseString(text, i)
         IN IF string.ok THEN Parsed({string.value}, string.next) ELSE SyntaxError

RECURSIVE ParseElements(_, _, _)
\* The elements of an array after its first, up to the closing bracket
ParseElements(text, i, read) ==
    IF At(text, i, "]") THEN Parsed(read, i + 1)
    ELSE IF At(text, i, ",")
         THEN LET n == ParseNumber(text, i + 1)
              IN IF n.ok THEN ParseElements(text, n.next, Append(read, n.value))
                 ELSE SyntaxError
         ELSE SyntaxError

ParseArray(text, i) ==
    IF ~At(text, i, "[") THEN SyntaxError
    ELSE IF At(text, i + 1, "]") THEN Parsed(<<>>, i + 2)
    ELSE LET n == ParseNumber(text, i + 1)
         IN IF n.ok THEN ParseElements(text, n.next, <<n.value>>) ELSE SyntaxError

ParseMember(text, i) ==
    LET key == ParseString(text, i)
    IN IF key.ok /\ At(text, key.next, ":")
       THEN LET n == ParseNumber(text, key.next + 1)
            IN IF n.ok
               THEN Parsed([key |-> key.value, value |-> n.value], n.next)
               ELSE SyntaxError
       ELSE SyntaxError

RECURSIVE ParseMembers(_, _, _)
\* The members of an object after its first, up to the closing brace
ParseMembers(text, i, read) ==
    IF At(text, i, "}") THEN Parsed(read, i + 1)
    ELSE IF At(text, i, ",")
         THEN LET member == ParseMember(text, i + 1)
              IN IF member.ok
                 THEN ParseMembers(text, member.next, Append(read, member.value))
                 ELSE SyntaxError
         ELSE SyntaxError

ParseScores(text, i) ==
    IF ~At(text, i, "{") THEN SyntaxError
    ELSE IF At(text, i + 1, "}") THEN Parsed(<<>>, i + 2)
    ELSE LET member == ParseMember(text, i + 1)
         IN IF member.ok
            THEN ParseMembers(text, member.next, <<member.value>>)
            ELSE SyntaxError

\* The value of the member named name, read at the place i
ParseNamed(text, i, name, value(_, _)) ==
    IF At(text, i, Quote(name)) /\ At(text, i + 1, ":")
    THEN value(text, i + 2)
    ELSE SyntaxError

JSONparse(text) ==
    IF ~At(text, 1, "{") THEN SyntaxError
    ELSE
    LET visited == ParseNamed(text, 2, "screensVisited", ParseArray)
    IN IF ~(visited.ok /\ At(text, visited.next, ",")) THEN SyntaxError
    ELSE
    LET scores == ParseNamed(text, visited.next + 1, "quizScores", ParseScores)
    IN IF ~(scores.ok /\ At(text, scores.next, ",")) THEN SyntaxError
    ELSE
    LET visit == ParseNamed(text, scores.next + 1, "lastVisit", ParseNullable)
    IN IF ~(visit.ok /\ At(text, visit.next, ",")) THEN SyntaxError
    ELSE
    LET completed == ParseNamed(text, visit.next + 1, "completedAt", ParseNullable)
    IN IF ~(completed.ok /\ At(text, completed.next, ",")) THEN SyntaxError
    ELSE
    LET visits == ParseNamed(text, completed.next + 1, "totalVisits", ParseNumber)
    IN IF visits.ok /\ At(text, visits.next, "}") /\ visits.next = Len(text)
       THEN Parsed([screensVisited |-> visited.value,
                    quizScores |-> scores.value,
                    lastVisit |-> visit.value,
                    completedAt |-> completed.value,
                    totalVisits |-> visits.value], visits.next + 1)
       ELSE SyntaxError

\* Texts that are not JSON: cut short, and not a value at all
BrokenTexts == {<<"{", Quote("screensVisited"), ":", "[">>, <<"undefined">>}

\* ProgressTracker.load(): stored ? JSON.parse(stored) : getDefaultData(),
\* and getDefaultData() when JSON.parse throws
load(storage) ==
    IF storage[ProgressKey] = {} \/ storage[ProgressKey] = {<<>>}
    THEN getDefaultData
    ELSE LET parsed == JSONparse(CHOOSE text \in storage[ProgressKey] : TRUE)
         IN IF parsed.ok THEN parsed.value ELSE getDefaultData

\* Where load finds the data
Origin(storage) ==
    IF storage[ProgressKey] = {} THEN "absent"
    ELSE IF storage[ProgressKey] = {<<>>} THEN "empty"
    ELSE IF JSONparse(CHOOSE text \in storage[ProgressKey] : TRUE).ok THEN "stored"
    ELSE "unparseable"

\* new ProgressTracker(pageId)
NewProgressTracker(storage) == [data |-> load(storage), origin |-> Origin(storage)]

\* this.data.screensVisited.includes(screenId)
Visited(data, screenId) ==
    \E i \in DOMAIN data.screensVisited : data.screensVisited[i] = screenId

\* this.data.quizScores[quizId] || 0
ScoreOr0(data, quizId) ==
    IF \E i \in DOMAIN data.quizScores : data.quizScores[i].key = quizId
    THEN (CHOOSE m \in {data.quizScores[i] : i \in DOMAIN data.quizScores} :
             m.key = quizId).value
    ELSE 0

Max(a, b) == IF a >= b THEN a ELSE b

\* The object after quizScores[quizId] = value: a new key comes last
SetScore(scores, quizId, value) ==
    IF \E i \in DOMAIN scores : scores[i].key = quizId
    THEN [i \in DOMAIN scores |->
             IF scores[i].key = quizId THEN [key |-> quizId, value |-> value]
             ELSE scores[i]]
    ELSE Append(scores, [key |-> quizId, value |-> value])

TrackerInit ==
    /\ op = "none"
    /\ arg = [kind |-> "none"]
    /\ result = "none"
    /\ tz = [off |-> 0, dst |-> "none"]
    /\ LoaderConstructed
    /\ currentFocusIndex = 0
    /\ activeElement = Body
    /\ trapHandlers = [c \in Containers |-> 0]
    /\ last = NoCall
    /\ modal = NoModal
    /\ bodyOverflow = ""
    /\ escapeListeners = 0
    /\ liveRegion = [textContent |-> "", ariaLive |-> "polite"]
    /\ timers = <<>>
    /\ now = 0
    /\ \E stored \in {{}, {<<>>}} \cup {{text} : text \in BrokenTexts} :
          localStorage = [EmptyStorage EXCEPT ![ProgressKey] = stored]
    /\ soundManager = NewSoundManager(localStorage)
    /\ audio = NoAudio
    /\ systemDark = FALSE
    /\ themeManager = NewThemeManager(localStorage, FALSE)
    /\ documentDark = FALSE
    /\ tracker = NewProgressTracker(localStorage)

\* What a tracker call leaves alone
TrackerFrame ==
    /\ UNCHANGED <<soundVars, themeVars>>
    /\ UNCHANGED <<calendarVars, loaderVars, domVars>>

saveWritesBeforeStamp(call, data, instant, writes) ==
    /\ tracker' = [tracker EXCEPT !.data = [data EXCEPT !.lastVisit = {instant}]]
    /\ localStorage' = IF writes
                       THEN [localStorage EXCEPT ![ProgressKey] =
                                {JSONstringify(data)}]
                       ELSE localStorage
    /\ last' = [NoCall EXCEPT !.call = call, !.wrote = writes]

\* this.save() at the end of the call named call, which made the data
\* data: lastVisit is set to the time instant, and localStorage.setItem
\* stores the text of the data, or throws (writes is false) and save logs it.
save(call, data, instant, writes) ==
    /\ tracker' = [tracker EXCEPT !.data = [data EXCEPT !.lastVisit = {instant}]]
    /\ localStorage' = IF writes
                       THEN [localStorage EXCEPT ![ProgressKey] =
                                {JSONstringify([data EXCEPT !.lastVisit = {instant}])}]
                       ELSE localStorage
    /\ last' = [NoCall EXCEPT !.call = call, !.wrote = writes]

\* The call named call returns without saving.
NoSave(call) ==
    /\ UNCHANGED <<tracker, localStorage>>
    /\ last' = [NoCall EXCEPT !.call = call]

\* new ProgressTracker(pageId), as when the page is loaded again
NewTracker ==
    /\ tracker' = NewProgressTracker(localStorage)
    /\ last' = [NoCall EXCEPT !.call = "new"]
    /\ UNCHANGED localStorage
    /\ TrackerFrame

VisitScreen ==
    /\ \E screenId \in ScreenIds, i \in DOMAIN Instants, writes \in BOOLEAN :
          IF ~Visited(tracker.data, screenId)
          THEN save("visitScreen",
                    [tracker.data EXCEPT !.screensVisited = Append(@, screenId)],
                    Instants[i], writes)
          ELSE NoSave("visitScreen")
    /\ TrackerFrame

RecordQuizScore ==
    /\ \E quizId \in QuizIds, score \in Scores,
          i \in DOMAIN Instants, writes \in BOOLEAN :
          save("recordQuizScore",
               [tracker.data EXCEPT !.quizScores =
                   SetScore(@, quizId, Max(ScoreOr0(tracker.data, quizId), score))],
               Instants[i], writes)
    /\ TrackerFrame

MarkComplete ==
    /\ \E i \in DOMAIN Instants, j \in DOMAIN Instants, writes \in BOOLEAN :
          /\ i <= j
          /\ IF tracker.data.completedAt = {}
             THEN save("markComplete",
                       [tracker.data EXCEPT !.completedAt = {Instants[i]}],
                       Instants[j], writes)
             ELSE NoSave("markComplete")
    /\ TrackerFrame

IncrementVisits ==
    /\ tracker.data.totalVisits < MaxVisits
    /\ \E i \in DOMAIN Instants, writes \in BOOLEAN :
          save("incrementVisits",
               [tracker.data EXCEPT !.totalVisits = @ + 1],
               Instants[i], writes)
    /\ TrackerFrame

Reset ==
    /\ \E i \in DOMAIN Instants, writes \in BOOLEAN :
          save("reset", getDefaultData, Instants[i], writes)
    /\ TrackerFrame

TrackerNext ==
    \/ NewTracker
    \/ VisitScreen
    \/ RecordQuizScore
    \/ MarkComplete
    \/ IncrementVisits
    \/ Reset

SpecTracker == TrackerInit /\ [][TrackerNext]_vars

(***************************************************************************)
(* Properties.                                                             *)
(***************************************************************************)
Divides(n, x) == x % n = 0

GregorianLeapRule(year) ==
    Divides(400, year) \/ (Divides(4, year) /\ ~Divides(100, year))

\* C1: for every integer year, negative years included, isGregorianLeapYear
\* is true exactly when the year is divisible by 400, or by 4 and not by 100
\* (2000 and 2024 are leap years, 1900 and 2023 are not), and
\* getDaysInGregorianYear is 366 for exactly those years and 365 otherwise.
C1_GregorianLeapYear ==
    /\ op = "isGregorianLeapYear" =>
          /\ result = GregorianLeapRule(arg.year)
          /\ arg.year \in {2000, 2024} => result = TRUE
          /\ arg.year \in {1900, 2023} => result = FALSE
    /\ op = "getDaysInGregorianYear" =>
          result = (IF GregorianLeapRule(arg.year) THEN 366 ELSE 365)

C1_Witness ==
    op = "getDaysInGregorianYear" /\ arg.year = -400 /\ result = 366

\* The Gregorian Easter Sunday of a year by the algorithm of Lilius and
\* Clavius (golden number, century corrections, epact, full moon, Sunday),
\* which shares no step with the Meeus/Jones/Butcher formula.
EasterByEpact(year) ==
    LET golden == (year % 19) + 1
        century == year \div 100 + 1
        solar == (3 * century) \div 4 - 12
        lunar == (8 * century + 5) \div 25 - 5
        sunday == (5 * year) \div 4 - solar - 10
        epact0 == (11 * golden + 20 + lunar - solar) % 30
        epact == IF (epact0 = 25 /\ golden > 11) \/ epact0 = 24
                 THEN epact0 + 1 ELSE epact0
        moon0 == 44 - epact
        moon == IF moon0 < 21 THEN moon0 + 30 ELSE moon0
        n == moon + 7 - ((sunday + moon) % 7)
    IN IF n > 31 THEN [month |-> "April", day |-> n - 31]
       ELSE [month |-> "March", day |-> n]

\* C2: for every year from 1583 on, calculateEasterDate returns
\* '<MonthName> <Day>, <year>' with the month and the day of the Gregorian
\* Easter Sunday of that year; 2023 gives 'April 9, 2023', 2024 gives
\* 'March 31, 2024' and 2025 gives 'April 20, 2025'.
C2_EasterDate ==
    (op = "calculateEasterDate" /\ arg.year >= 1583) =>
        /\ result = EasterByEpact(arg.year).month \o " "
                       \o ToString(EasterByEpact(arg.year).day) \o ", "
                       \o ToString(arg.year)
        /\ arg.year = 2023 => result = "April 9, 2023"
        /\ arg.year = 2024 => result = "March 31, 2024"
        /\ arg.year = 2025 => result = "April 20, 2025"

C2_Witness ==
    op = "calculateEasterDate" /\ arg.year = 2024 /\ result = "March 31, 2024"

\* C3: for every year >= 0, isHebrewLeapYear is true exactly when the year
\* mod 19 is one of 3, 6, 8, 11, 14, 17, 0, and getMonthsInHebrewYear is 13
\* for exactly those years and 12 otherwise.
C3_HebrewLeapYear ==
    /\ (op = "isHebrewLeapYear" /\ arg.year >= 0) =>
          result = (arg.year % 19 \in {3, 6, 8, 11, 14, 17, 0})
    /\ (op = "getMonthsInHebrewYear" /\ arg.year >= 0) =>
          result = (IF arg.year % 19 \in {3, 6, 8, 11, 14, 17, 0}
                    THEN 13 ELSE 12)

C3_Witness ==
    op = "getMonthsInHebrewYear" /\ arg.year = 38 /\ result = 13

\* C4: isHebrewLeapYear has period 19 over all integer years, negative years
\* included: isHebrewLeapYear(year) = isHebrewLeapYear(year + 19).
C4_HebrewPeriod19 ==
    op = "isHebrewLeapYear" => result = isHebrewLeapYear(arg.year + 19)

\* C5: for every year >= 0, isIslamicLeapYear is true exactly when the year
\* mod 30 is one of 2, 5, 7, 10, 13, 16, 18, 21, 24, 26, 29, and
\* getDaysInIslamicYear returns 354 or 355 only, 355 exactly when
\* isIslamicLeapYear is true.
C5_IslamicLeapYear ==
    /\ (op = "isIslamicLeapYear" /\ arg.year >= 0) =>
          result = (arg.year % 30 \in {2, 5, 7, 10, 13, 16, 18, 21, 24, 26, 29})
    /\ op = "getDaysInIslamicYear" =>
          /\ result \in {354, 355}
          /\ (result = 355) = isIslamicLeapYear(arg.year)
    /\ (op = "getDaysInIslamicYear" /\ arg.year >= 0) =>
          (result = 355) =
             (arg.year % 30 \in {2, 5, 7, 10, 13, 16, 18, 21, 24, 26, 29})

C5_Witness ==
    op = "getDaysInIslamicYear" /\ arg.year = 46 /\ result = 355

\* C6: isIslamicLeapYear has period 30 over all integer years, negative
\* years included: isIslamicLeapYear(year) = isIslamicLeapYear(year + 30).
C6_IslamicPeriod30 ==
    op = "isIslamicLeapYear" => result = isIslamicLeapYear(arg.year + 30)

\* The season of each month, January first.
SeasonOfMonth ==
    << "Winter", "Winter", "Spring", "Spring", "Spring", "Summer",
       "Summer", "Summer", "Fall", "Fall", "Fall", "Winter" >>

C8_MonthIndexInRange ==
    /\ op = "gregorianToHebrew" => hebrewMonthIndex(tz, arg.t) \in 0 .. 11
    /\ op = "gregorianToHindu" => hinduMonthIndex(tz, arg.t) \in 0 .. 11
    /\ op = "gregorianToIslamic" => islamicMonthIndex(tz, arg.t) \in 0 .. 11

\* C9: for the Gregorian date (y, m, d), gregorianToHebrew returns
\* '<d> <MonthName> <hebrewYear>', hebrewYear being y + 3760 when m <= 8 and
\* y + 3761 when m >= 9, MonthName entry (m + 6) mod 12 of Nisan .. Adar.
C9_GregorianToHebrew ==
    op = "gregorianToHebrew" =>
        result = ToString(arg.d) \o " "
                    \o hebrewMonths[((arg.m + 6) % 12) + 1] \o " "
                    \o ToString(IF arg.m <= 8 THEN arg.y + 3760
                                ELSE arg.y + 3761)

C9_Witness ==
    /\ op = "gregorianToHebrew"
    /\ arg.y = 2024
    /\ arg.m = 9
    /\ result = "1 Tammuz 5785"

\* Day of the year, 1 for January 1, of the date (y, m, d).
OrdinalDay(y, m, d) == DaysFromCivil(y, m + 1, d) - DaysFromCivil(y, 1, 1) + 1

\* C10: for the Gregorian date of year y and day of the year n,
\* gregorianToIslamic returns '<day> <MonthName> <islamicYear> AH' with
\* islamicYear = floor((y - 622) * 1.030684) + 1, the month entry
\* floor((n mod 354) / 29.5) of the Islamic month names and
\* day = floor((n mod 354) mod 29.5) + 1, which is in 1..30.
C10_GregorianToIslamic ==
    op = "gregorianToIslamic" =>
        LET n == OrdinalDay(arg.y, arg.m, arg.d)
            r == n % 354
            day == ((2 * r) % 59) \div 2 + 1
        IN /\ day \in 1 .. 30
           /\ result = ToString(day) \o " "
                          \o islamicMonths[(2 * r) \div 59 + 1] \o " "
                          \o ToString(((arg.y - 622) * 1030684) \div 1000000 + 1)
                          \o " AH"

\* C11: for the Gregorian date (y, m, d), gregorianToHindu returns
\* '<d> <MonthName> <y + 57> (Vikram Samvat)', MonthName being entry
\* (m + 10) mod 12 of Chaitra .. Phalguna.
C11_GregorianToHindu ==
    op = "gregorianToHindu" =>
        result = ToString(arg.d) \o " "
                    \o hinduMonths[((arg.m + 10) % 12) + 1] \o " "
                    \o ToString(arg.y + 57) \o " (Vikram Samvat)"

C11_Witness ==
    /\ op = "gregorianToHindu"
    /\ arg.y = 2024
    /\ arg.m = 0
    /\ result = "15 Magha 2081 (Vikram Samvat)"

\* The month name and the day of a day number.
MonthAndDay(dayNumber) ==
    monthNames[CivilFromDays(dayNumber).m] \o " "
       \o ToString(CivilFromDays(dayNumber).d)

\* C12: calculateRamadanStart returns '<MonthName> <Day>, <gregorianYear>'
\* with the month and day of the date 11 * (gregorianYear - 2024) days
\* before March 10, 2024; 2024 gives 'March 10, 2024', and a year's date is
\* 11 days before that of the year before.
C12_RamadanStart ==
    op = "calculateRamadanStart" =>
        LET n == DaysFromCivil(2024, 3, 10) - 11 * (arg.year - 2024)
        IN /\ result = MonthAndDay(n) \o ", " \o ToString(arg.year)
           /\ arg.year = 2024 => result = "March 10, 2024"
           /\ arg.year = 2025 => result = "February 28, 2025"
           /\ calculateRamadanStart(tz, arg.year - 1) =
                 MonthAndDay(n + 11) \o ", " \o ToString(arg.year - 1)

C12_Witness ==
    /\ op = "calculateRamadanStart"
    /\ arg.year = 2023
    /\ result = "March 21, 2023"

\* C14: getJulianGregorianOffset(year) is
\* floor(year / 100) - floor(floor(year / 100) / 4) - 2 for every integer
\* year: 10 for 1582..1699, 11 for 1700..1799, 12 for 1800..1899, 13 for
\* 1900..2099; it is constant within a century and never decreases.
C14_JulianGregorianOffset ==
    op = "getJulianGregorianOffset" =>
        /\ result = (arg.year \div 100) - ((arg.year \div 100) \div 4) - 2
        /\ arg.year \in 1582 .. 1699 => result = 10
        /\ arg.year \in 1700 .. 1799 => result = 11
        /\ arg.year \in 1800 .. 1899 => result = 12
        /\ arg.year \in 1900 .. 2099 => result = 13
        /\ result <= getJulianGregorianOffset(arg.year + 1)
        /\ (arg.year \div 100 = (arg.year + 1) \div 100) =>
              result = getJulianGregorianOffset(arg.year + 1)

C14_Witness ==
    op = "getJulianGregorianOffset" /\ arg.year = 1799 /\ result = 11

\* C18: for every year >= 0 the month computed inside calculateEasterDate
\* is 3 or 4 and the day is in 1..31, so the month name is March or April,
\* and the date returned is between March 22 and April 25.
C18_EasterRange ==
    (op = "calculateEasterDate" /\ arg.year >= 0) =>
        LET md == EasterMonthDay(arg.year)
        IN /\ md.month \in {3, 4}
           /\ md.day \in 1 .. 31
           /\ Index(monthNames, md.month - 1) \in {"March", "April"}
           /\ md.month = 3 => md.day >= 22
           /\ md.month = 4 => md.day <= 25
           /\ result = (IF md.month = 3 THEN "March" ELSE "April") \o " "
                          \o ToString(md.day) \o ", " \o ToString(arg.year)

C18_Witness ==
    op = "calculateEasterDate" /\ arg.year = 0 /\ result = "April 9, 0"

\* The string of the date that lies offset days after day d of month m1
\* (1..12) of the year, with the year printed.
ShiftedDate(year, m1, d, offset) ==
    MonthAndDay(DaysFromCivil(year, m1, d) + offset) \o ", " \o ToString(year)

\* C13 as claimed: each festival estimator returns the month and day of
\* its base date in the year, shifted by an offset whose trigonometric
\* argument is the year itself: October 15 plus floor(sin(year) * 15) for
\* calculateDiwali, March 8 plus floor(cos(year) * 12) for calculateHoli,
\* September 20 plus floor(sin(year) * 10) for calculateNavratri; the year
\* printed is the input year.
C13_FestivalsArgumentIsYear ==
    /\ op = "calculateDiwali" =>
          result = ShiftedDate(arg.year, 10, 15,
                               FloorTimes(MathSin(arg.year), 15))
    /\ op = "calculateHoli" =>
          result = ShiftedDate(arg.year, 3, 8,
                               FloorTimes(MathCos(arg.year), 12))
    /\ op = "calculateNavratri" =>
          result = ShiftedDate(arg.year, 9, 20,
                               FloorTimes(MathSin(arg.year), 10))

\* C13 as amended: the same, except that the offset of calculateNavratri
\* is floor(sin(year + 1) * 10).
C13_Festivals ==
    /\ op = "calculateDiwali" =>
          result = ShiftedDate(arg.year, 10, 15,
                               FloorTimes(MathSin(arg.year), 15))
    /\ op = "calculateHoli" =>
          result = ShiftedDate(arg.year, 3, 8,
                               FloorTimes(MathCos(arg.year), 12))
    /\ op = "calculateNavratri" =>
          result = ShiftedDate(arg.year, 9, 20,
                               FloorTimes(MathSin(arg.year + 1), 10))

C13_Witness ==
    op = "calculateNavratri" /\ arg.year = 2024 /\ result = "September 29, 2024"

\* C15: every CalendarUtils function is deterministic in its argument
\* alone: the same year, the same calendar date or the same date string
\* gives the same result whatever the host's time zone and, for a calendar
\* date, whatever the time of day the Date carries.
C15_Deterministic ==
    /\ op = "gregorianToHebrew" =>
          \A z \in Zones, h \in DateHours :
             gregorianToHebrew(z, DateOfLocal(z, arg.y, arg.m, arg.d, h)) = result
    /\ op = "gregorianToHindu" =>
          \A z \in Zones, h \in DateHours :
             gregorianToHindu(z, DateOfLocal(z, arg.y, arg.m, arg.d, h)) = result
    /\ op = "gregorianToIslamic" =>
          \A z \in Zones, h \in DateHours :
             gregorianToIslamic(z, DateOfLocal(z, arg.y, arg.m, arg.d, h)) = result
    /\ (op = "getSeason" /\ arg.kind = "Date") =>
          \A z \in Zones, h \in DateHours :
             getSeason(z, [arg EXCEPT !.t = DateOfLocal(z, arg.y, arg.m, arg.d, h)])
                = result
    /\ (op = "getSeason" /\ arg.kind = "string") =>
          \A z \in Zones : getSeason(z, arg) = result
    /\ op = "calculateRamadanStart" =>
          \A z \in Zones : calculateRamadanStart(z, arg.year) = result
    /\ op = "calculateDiwali" =>
          \A z \in Zones : calculateDiwali(z, arg.year) = result
    /\ op = "calculateHoli" =>
          \A z \in Zones : calculateHoli(z, arg.year) = result
    /\ op = "calculateNavratri" =>
          \A z \in Zones : calculateNavratri(z, arg.year) = result

\* C16: no CalendarUtils call changes anything that outlives it: the Date
\* (or the year, or the string) the caller passed has the same value after
\* the call as before, and nothing but the call's own result is written:
\* not the host's zone, not the module-level resourceLoader.
C16_Frame ==
    [][arg' = arg /\ tz' = tz /\ UNCHANGED loaderVars /\ UNCHANGED pageVars]_vars

C16_Witness ==
    /\ op = "gregorianToIslamic"
    /\ arg.kind = "Date"
    /\ arg.y = 2024
    /\ arg.t = DateOfLocal(tz, arg.y, arg.m, arg.d, 23)

YearPredicates == {"isGregorianLeapYear", "isHebrewLeapYear", "isIslamicLeapYear"}

YearCounts ==
    {"getDaysInGregorianYear", "getMonthsInHebrewYear", "getDaysInIslamicYear"}

\* C17 as claimed: for a year that is NaN or no integer, each of the
\* arithmetic functions (leap-year predicates, day and month counts, Julian
\* offset, Easter date) returns a NaN/undefined-like result: no boolean and
\* no number but NaN, and an Easter string with no month name or no day.
C17_InvalidYearPropagates ==
    arg.kind = "number" =>
        /\ op \in YearPredicates => result \notin BOOLEAN
        /\ op \in YearCounts \cup {"getJulianGregorianOffset"} => result.nan
        /\ op = "calculateEasterDate" =>
              \/ EasterMonthDayOfNumber(arg.value).day.nan
              \/ NIndex(monthNames, NSub(EasterMonthDayOfNumber(arg.value).month,
                                         NInt(1))) = "undefined"

\* C17 as amended: for a year that is NaN or no integer every function
\* returns a value; the leap-year predicates return false and the counts
\* 365, 12 and 354; getJulianGregorianOffset returns NaN for NaN and the
\* offset of the year rounded down otherwise; calculateEasterDate returns
\* 'undefined NaN, NaN' for NaN and a string with a day that is no integer
\* otherwise.
C17_InvalidYear ==
    arg.kind = "number" =>
        /\ op \in YearPredicates => result = FALSE
        /\ op = "getDaysInGregorianYear" => result = NInt(365)
        /\ op = "getMonthsInHebrewYear" => result = NInt(12)
        /\ op = "getDaysInIslamicYear" => result = NInt(354)
        /\ op = "getJulianGregorianOffset" =>
              result = (IF arg.value.nan THEN NaN
                        ELSE NInt(getJulianGregorianOffset(arg.value.tw \div 2)))
        /\ op = "calculateEasterDate" =>
              IF arg.value.nan THEN result = "undefined NaN, NaN"
              ELSE /\ ~EasterMonthDayOfNumber(arg.value).day.nan
                   /\ EasterMonthDayOfNumber(arg.value).day.tw % 2 = 1
                   /\ result =
                         NIndex(monthNames,
                                NSub(EasterMonthDayOfNumber(arg.value).month, NInt(1)))
                            \o " " \o NToString(EasterMonthDayOfNumber(arg.value).day)
                            \o ", " \o NToString(arg.value)

C17_Witness ==
    /\ op = "getJulianGregorianOffset"
    /\ arg.kind = "number"
    /\ arg.value.nan
    /\ result = NaN

\* A call all of whose appended scripts have fired their event.
Finished(c) == c.primaryScript # "pending" /\ c.fallbackScript # "pending"

PrimaryFailed(c) == c.primaryScript \in {"bad", "error"}

\* What C19 and its amended form share: the promise of a call is pending
\* while a script of the call is; once every appended script has fired, it
\* has been settled exactly once; the fallback script is appended only
\* after the primary failed; the name is in loaded on resolution and in
\* failed on rejection.
SettlesOnce(c) ==
    /\ ~Finished(c) => (c.promise = "pending" /\ c.settles = 0)
    /\ Finished(c) => (c.promise \in {"resolved", "rejected"} /\ c.settles = 1)
    /\ c.fallbackScript # "none" => PrimaryFailed(c)
    /\ c.promise = "resolved" => c.name \in loaded
    /\ c.promise = "rejected" => c.name \in failed

\* C19 as claimed: for a loadScript call whose scripts have all fired, the
\* promise settles exactly once; it resolves iff the primary loaded with
\* testFunction() true, or the primary failed and the fallback then loaded
\* with testFunction() true, and rejects otherwise; the fallback is
\* appended only after the primary failed; name is in loaded on resolution
\* and in failed on rejection.
C19_LoadScriptOutcomeByScripts ==
    \A i \in 1 .. Len(calls) :
        LET c == calls[i]
        IN /\ SettlesOnce(c)
           /\ Finished(c) =>
                 ((c.promise = "resolved") =
                     (\/ c.primaryScript = "ok"
                      \/ (PrimaryFailed(c) /\ c.fallbackScript = "ok")))

\* C19 as amended: the same, with one more way to resolve: the name was in
\* loaded when the call was made, and then no script is appended.
C19_LoadScriptOutcome ==
    \A i \in 1 .. Len(calls) :
        LET c == calls[i]
        IN /\ SettlesOnce(c)
           /\ Finished(c) =>
                 ((c.promise = "resolved") =
                     (\/ c.alreadyLoaded
                      \/ c.primaryScript = "ok"
                      \/ (PrimaryFailed(c) /\ c.fallbackScript = "ok")))
           /\ c.alreadyLoaded =>
                 (c.primaryScript = "none" /\ c.fallbackScript = "none")

C19_Witness ==
    \E i \in 1 .. Len(calls) :
        /\ calls[i].primaryScript = "bad"
        /\ calls[i].fallbackScript = "ok"
        /\ calls[i].promise = "resolved"

\* C20: after any interleaving of loadScript calls and script events, no
\* name is in both loaded and failed, and no script element is appended for
\* a name that is already in loaded.
C20_LoadedFailedDisjoint ==
    /\ loaded \cap failed = {}
    /\ \A i \in 1 .. Len(calls) : ~calls[i].fallbackWhenLoaded

\* C21: after a close (by close() or by Escape) that ends any sequence of
\* open(), close() and Escape, the modal is hidden, body scrolling is
\* restored, the focus is on the element that had it before the modal was
\* first opened, and no keydown handler of the modal is left on document or
\* on the modal.
C21_ModalClosedClean ==
    (last.call \in {"close", "Escape"}) =>
        /\ modal.display = "none"
        /\ modal.ariaHidden = "true"
        /\ bodyOverflow = ""
        /\ (modal.focusBeforeOpen # {} => modal.focusBeforeOpen = {activeElement})
        /\ escapeListeners = 0
        /\ trapHandlers[modal.container] = 0

\* C22: once the timers due have run, from 100 ms after the last
\* announce(m) until 5000 ms after it the text of the live region is m: the
\* timers of earlier announce calls do not empty or replace it.
C22_AnnouncedTextStays ==
    (/\ last.call = "announce"
     /\ ~TimerDue(timers, now)
     /\ last.at + SetDelay <= now
     /\ now < last.at + ClearDelay)
        => liveRegion.textContent = last.message

\* C23: play(name) of a built-in name on a sound manager that is enabled
\* and not initialised runs init() and starts an oscillator for that sound;
\* play starts nothing only when sound is disabled or the name is not a
\* known sound; no more than one AudioContext is ever constructed.
C23_PlayInitialises ==
    [][/\ (/\ last'.call = "play"
           /\ last'.message \in SoundNames
           /\ soundManager.enabled
           /\ ~soundManager.initialized)
          => (/\ soundManager'.initialized
              /\ audio'.oscillator = {BuiltInSounds[last'.message]})
       /\ (last'.call = "play" /\ audio'.oscillator = {})
          => (~soundManager.enabled \/ last'.message \notin SoundNames)
       /\ audio'.contexts <= 1]_vars

\* C24: after focusFirst, focusLast, focusNext or focusPrevious on a
\* container of n >= 1 focusable elements, currentFocusIndex is in
\* 0 .. n-1 and the element at that index has the focus; focusNext from the
\* last element goes to the first and focusPrevious from the first to the
\* last; a call on a container with none changes nothing.
C24_FocusIndexInRange ==
    [][(last'.call \in {"focusFirst", "focusLast", "focusNext", "focusPrevious"})
        => LET n == last'.container
           IN /\ n >= 1 =>
                    /\ ~last'.threw
                    /\ currentFocusIndex' \in 0 .. (n - 1)
                    /\ activeElement' = El(n, currentFocusIndex')
              /\ (n >= 1 /\ last'.call = "focusNext" /\ currentFocusIndex = n - 1)
                    => currentFocusIndex' = 0
              /\ (n >= 1 /\ last'.call = "focusPrevious" /\ currentFocusIndex = 0)
                    => currentFocusIndex' = n - 1
              /\ n = 0 =>
                    /\ currentFocusIndex' = currentFocusIndex
                    /\ activeElement' = activeElement]_vars

\* C25: a key pressed while the focus is in a container c.  With a trap
\* on c, Tab and Shift+Tab leave the focus in c: Tab on the last element
\* moves it to the first and Shift+Tab on the first to the last, the
\* default prevented; another key is left alone.  With no trap on c (never
\* set, or cleaned up) no key is prevented.  A container with no focusable
\* element never gets a handler.
C25_TrapKeepsFocus ==
    [][/\ trapHandlers'[0] = 0
       /\ (last'.call = "keydown" /\ activeElement.container \in Containers)
          => LET c == activeElement.container
                 first == getFocusableElements(c)[0]
                 lastEl == getFocusableElements(c)[c - 1]
                 tab == last'.message = "Tab"
             IN IF trapHandlers[c] > 0
                THEN /\ activeElement'.container = c
                     /\ (tab /\ ~last'.shiftKey /\ activeElement = lastEl)
                           => (activeElement' = first /\ last'.prevented)
                     /\ (tab /\ last'.shiftKey /\ activeElement = first)
                           => (activeElement' = lastEl /\ last'.prevented)
                     /\ ~tab => (activeElement' = activeElement /\ ~last'.prevented)
                ELSE ~last'.prevented]_vars

C25_Witness ==
    /\ last.call = "keydown"
    /\ last.message = "Tab"
    /\ last.shiftKey
    /\ last.prevented
    /\ trapHandlers[3] = 1
    /\ activeElement = El(3, 2)

C27_ProgressRoundTrip ==
    /\ last.wrote => load(localStorage) = tracker.data
    /\ (last.call \in {"none", "new"}
        /\ tracker.origin \in {"absent", "empty", "unparseable"})
          => tracker.data = [screensVisited |-> <<>>, quizScores |-> <<>>,
                             lastVisit |-> {}, completedAt |-> {},
                             totalVisits |-> 0]
    /\ ~last.threw

C27_Witness ==
    /\ last.call = "recordQuizScore"
    /\ last.wrote
    /\ tracker.origin = "unparseable"
    /\ tracker.data.screensVisited = <<1, 0>>
    /\ tracker.data.quizScores = <<[key |-> "quiz-1", value |-> 90]>>
    /\ tracker.data.completedAt # {}
    /\ tracker.data.totalVisits = 1

====
